---- MODULE Spec2Model ----
(***************************************************************************)
(* Model of services/markup_parser.py (SieleMarkupParser): the markup to   *)
(* structured-document pipeline.  Texts are strings; every regular         *)
(* expression of the source is an operator that scans the string the way   *)
(* Python's re module matches it (leftmost match, greedy and lazy          *)
(* quantifiers, non-overlapping finditer and sub).  Positions are 1-based  *)
(* inside the scanners and 0-based, as in Python, in the records parse     *)
(* returns.                                                                *)
(***************************************************************************)
EXTENDS Integers, Sequences, FiniteSets, TLC

VARIABLES raw, tags, words, db_session, db_fails, pc, word_mapping, word_fallback, result, html,
          loads, requests, passage, question_doc, tpc, ti, seen

\* the request in hand and its parser
request_vars == <<raw, tags, words, db_session, db_fails, pc, word_mapping, word_fallback, result, html>>

\* the process: the lexicon queries made, the requests taken, and the stored
\* passage with its question document
server_vars == <<loads, requests, passage, question_doc>>

\* the threads inside one parser: their positions, their loop indices and
\* the maps their lookups read
thread_vars == <<tpc, ti, seen>>

vars == <<request_vars, server_vars, thread_vars>>

\* a local name: Let(e, LAMBDA x : body) is body with x bound to the value of e
Let(v, F(_)) == F(v)

(***************************************************************************)
(* Characters and Python str methods                                       *)
(***************************************************************************)
Ch(s, i) == SubSeq(s, i, i)

Digits == {"0", "1", "2", "3", "4", "5", "6", "7", "8", "9"}

\* \s of the re module, restricted to the white space the inputs use
Whitespace == {" ", "\n"}

LowerLetters == <<"a", "b", "c", "d", "e", "f", "g", "h", "i", "j", "k", "l", "m",
                  "n", "o", "p", "q", "r", "s", "t", "u", "v", "w", "x", "y", "z">>

UpperLetters == <<"A", "B", "C", "D", "E", "F", "G", "H", "I", "J", "K", "L", "M",
                  "N", "O", "P", "Q", "R", "S", "T", "U", "V", "W", "X", "Y", "Z">>

UpperSet == {UpperLetters[i] : i \in 1..26}

LowerSet == {LowerLetters[i] : i \in 1..26}

IsDigit(c) == c \in Digits

IsSpace(c) == c \in Whitespace

IsAlnum(c) == c \in Digits \cup UpperSet \cup LowerSet

UpperChar(c) ==
    IF c \in LowerSet THEN UpperLetters[CHOOSE i \in 1..26 : LowerLetters[i] = c] ELSE c

LowerChar(c) ==
    IF c \in UpperSet THEN LowerLetters[CHOOSE i \in 1..26 : UpperLetters[i] = c] ELSE c

\* the concatenation of a sequence of strings
RECURSIVE Concat(_)
Concat(parts) == IF Len(parts) = 0 THEN "" ELSE Head(parts) \o Concat(Tail(parts))

\* str.upper()
Upper(s) == Concat([i \in 1..Len(s) |-> UpperChar(Ch(s, i))])

\* str.lower()
Lower(s) == Concat([i \in 1..Len(s) |-> LowerChar(Ch(s, i))])

\* s[i:]  (1-based i)
From(s, i) == SubSeq(s, i, Len(s))

\* s.startswith(lit, i-1)
At(s, i, lit) == i >= 1 /\ i + Len(lit) - 1 <= Len(s) /\ SubSeq(s, i, i + Len(lit) - 1) = lit

\* the least element of a set of positions, none when the set is empty
LeastOr(P, none) == IF P = {} THEN none ELSE CHOOSE p \in P : \A q \in P : p <= q

\* the greatest element of a set of positions, none when the set is empty
GreatestOr(P, none) == IF P = {} THEN none ELSE CHOOSE p \in P : \A q \in P : q <= p

\* s.find(lit, i-1) + 1 : first position >= i where lit occurs, 0 when none
Find(s, lit, i) ==
    LeastOr({p \in i..(Len(s) - Len(lit) + 1) : SubSeq(s, p, p + Len(lit) - 1) = lit}, 0)

\* the position after the last one when i is inside the string, i itself otherwise
PastEnd(s, i) == IF i > Len(s) THEN i ELSE Len(s) + 1

\* first position >= i whose character is not white space
SkipSpace(s, i) == LeastOr({p \in i..Len(s) : ~IsSpace(Ch(s, p))}, PastEnd(s, i))

\* last position <= i whose character is not white space (0 when none)
SkipSpaceBack(s, i) == GreatestOr({p \in 1..i : ~IsSpace(Ch(s, p))}, 0)

\* first position >= i whose character is not a digit
SkipDigits(s, i) == LeastOr({p \in i..Len(s) : ~IsDigit(Ch(s, p))}, PastEnd(s, i))

\* first position >= i whose character is not a hyphen
SkipHyphens(s, i) == LeastOr({p \in i..Len(s) : Ch(s, p) # "-"}, PastEnd(s, i))

\* first position >= i whose character is not a letter or digit
SkipAlnum(s, i) == LeastOr({p \in i..Len(s) : ~IsAlnum(Ch(s, p))}, PastEnd(s, i))

\* str.strip()
Strip(s) == SubSeq(s, SkipSpace(s, 1), SkipSpaceBack(s, Len(s)))

DigitVal(c) ==
    CASE c = "0" -> 0 [] c = "1" -> 1 [] c = "2" -> 2 [] c = "3" -> 3 [] c = "4" -> 4
      [] c = "5" -> 5 [] c = "6" -> 6 [] c = "7" -> 7 [] c = "8" -> 8 [] c = "9" -> 9

DigitChar(d) == Ch("0123456789", d + 1)

\* int(s) of a non-empty digit string
RECURSIVE ToInt(_)
ToInt(s) ==
    IF Len(s) = 0 THEN 0
    ELSE 10 * ToInt(SubSeq(s, 1, Len(s) - 1)) + DigitVal(Ch(s, Len(s)))

\* str(n) of a natural number
RECURSIVE ToStr(_)
ToStr(n) == IF n < 10 THEN DigitChar(n) ELSE ToStr(n \div 10) \o DigitChar(n % 10)

\* the positions of the separator sep in s, in order, then Len(s) + 1
RECURSIVE Cuts(_, _, _)
Cuts(s, sep, i) ==
    Let(Find(s, sep, i), LAMBDA j :
        IF j = 0 THEN <<Len(s) + 1>> ELSE <<j>> \o Cuts(s, sep, j + 1))

\* the pieces of s between the cuts
Pieces(s, cuts) ==
    [k \in 1..Len(cuts) |-> SubSeq(s, IF k = 1 THEN 1 ELSE cuts[k - 1] + 1, cuts[k] - 1)]

\* str.split(sep) for a one-character separator
SplitOn(s, sep) == Pieces(s, Cuts(s, sep, 1))

\* separator.join(parts)
Join(parts, sep) ==
    Concat([k \in 1..Len(parts) |-> IF k = 1 THEN parts[k] ELSE sep \o parts[k]])

\* the concatenation of a sequence of sequences
RECURSIVE ConcatAll(_)
ConcatAll(seqs) == IF Len(seqs) = 0 THEN <<>> ELSE Head(seqs) \o ConcatAll(Tail(seqs))

(***************************************************************************)
(* Regular-expression plumbing: a match is [ok, start, end, g1, g2, g3]    *)
(* with end the position after the match.                                  *)
(***************************************************************************)
NoMatch == [ok |-> FALSE, start |-> 0, end |-> 0, g1 |-> "", g2 |-> "", g3 |-> ""]

Match(a, b, x1, x2, x3) == [ok |-> TRUE, start |-> a, end |-> b, g1 |-> x1, g2 |-> x2, g3 |-> x3]

\* the text of s outside the non-overlapping matches ms, piece by piece:
\* before the first match, between two matches, after the last
Outside(s, ms) ==
    [k \in 1..(Len(ms) + 1) |->
       SubSeq(s,
              IF k = 1 THEN 1 ELSE ms[k - 1].end,
              IF k > Len(ms) THEN Len(s) ELSE ms[k].start - 1)]

\* re.sub over the non-overlapping matches ms, the k-th replaced by reps[k]
Splice(s, ms, reps) ==
    Let(Outside(s, ms), LAMBDA out :
        Concat([k \in 1..Len(out) |-> IF k = 1 THEN out[k] ELSE reps[k - 1] \o out[k]]))

\* re.sub(pattern, '', s) over the matches ms
Delete(s, ms) == Concat(Outside(s, ms))

\* the matches of a pattern tried at every position of s
MatchTable(s, TryAt(_, _)) == [p \in 1..Len(s) |-> TryAt(s, p)]

\* re.search from position i: the leftmost match of the table
FirstMatch(at, i) ==
    Let(LeastOr({p \in i..Len(at) : at[p].ok}, 0), LAMBDA p :
        IF p = 0 THEN NoMatch ELSE at[p])

\* re.finditer from position i: the non-overlapping matches, left to right
RECURSIVE AllMatches(_, _)
AllMatches(at, i) ==
    Let(FirstMatch(at, i), LAMBDA m :
        IF m.ok THEN <<m>> \o AllMatches(at, m.end) ELSE <<>>)

(***************************************************************************)
(* Metadata tags                                                           *)
(***************************************************************************)
\* r'::tarea:(\d+)::' tried at position p
TareaAt(s, p) ==
    IF ~At(s, p, "::tarea:") THEN NoMatch
    ELSE Let(SkipDigits(s, p + 8), LAMBDA d :
             IF d > p + 8 /\ At(s, d, "::")
             THEN Match(p, d + 2, SubSeq(s, p + 8, d - 1), "", "")
             ELSE NoMatch)

\* the title group of r'::title:(.+?)::' from g up to the closing "::" at j:
\* '.' does not match a newline
TitleGroup(s, p, g, j) ==
    IF g <= Len(s) /\ j > 0 /\ Find(SubSeq(s, g, j - 1), "\n", 1) = 0
    THEN Match(p, j + 2, SubSeq(s, g, j - 1), "", "")
    ELSE NoMatch

\* r'::title:(.+?)::' tried at position p
TitleAt(s, p) ==
    IF ~At(s, p, "::title:") THEN NoMatch
    ELSE TitleGroup(s, p, p + 8, Find(s, "::", p + 9))

\* the title of a document without a title tag (None)
NoTitle == [present |-> FALSE, text |-> ""]

\* sys.int_info.default_max_str_digits of the interpreter: int(s) raises
\* ValueError for a digit string with more digits than this
MaxStrDigits == 4300

\* int(digits) raises
IntRaises(digits) == Len(digits) > MaxStrDigits

\* int(match.group(1)) raises for one of the matches ms
AnyIntRaises(ms) == \E k \in 1..Len(ms) : IntRaises(ms[k].g1)

IntOrOne(m) == IF m.ok THEN ToInt(m.g1) ELSE 1

extract_tarea_number(text) == IntOrOne(FirstMatch(MatchTable(text, TareaAt), 1))

\* a faulty variant of the title: the inner text as written
UnstrippedOrNone(m) == IF m.ok THEN [present |-> TRUE, text |-> m.g1] ELSE NoTitle

StrippedOrNone(m) == IF m.ok THEN [present |-> TRUE, text |-> Strip(m.g1)] ELSE NoTitle

extract_title(text) == StrippedOrNone(FirstMatch(MatchTable(text, TitleAt), 1))

RemoveTareaTags(text) == Delete(text, AllMatches(MatchTable(text, TareaAt), 1))

RemoveTitleTags(text) == Delete(text, AllMatches(MatchTable(text, TitleAt), 1))

remove_metadata_tags(text) == Strip(RemoveTitleTags(RemoveTareaTags(text)))

(***************************************************************************)
(* Cloze grammar                                                           *)
(***************************************************************************)
\* the groups of the gap pattern: digits up to d, options up to r, marker up to b
GapGroups(s, p, d, r, b) ==
    IF /\ d > p + 5
       /\ At(s, d, "|")
       /\ r > d + 1
       /\ At(s, r, "]]answer:")
       /\ b > r + 9
       /\ At(s, b, "[[/gap]]")
    THEN Match(p, b + 8, SubSeq(s, p + 5, d - 1), SubSeq(s, d + 1, r - 1), SubSeq(s, r + 9, b - 1))
    ELSE NoMatch

\* r'\[\[gap(\d+)\|([^\]]+)\]\]answer:([^\[]+)\[\[/gap\]\]' tried at position p
GapAt(s, p) ==
    IF ~At(s, p, "[[gap") THEN NoMatch
    ELSE Let(SkipDigits(s, p + 5), LAMBDA d :
         Let(Find(s, "]", d + 1), LAMBDA r :
             GapGroups(s, p, d, r, Find(s, "[", r + 9))))

\* a faulty variant of the label rule: letters only below five options
ClozeLabelBelowFive(k, n) == IF n < 5 THEN UpperLetters[k] ELSE ToStr(k)

\* chr(65 + i) if len(options_list) <= 5 else str(i + 1), with k = i + 1
ClozeLabel(k, n) == IF n <= 5 THEN UpperLetters[k] ELSE ToStr(k)

\* a faulty variant of the comparisons: the content compared without regard to case
ClozeIsCorrectAnyCase(correct_answer, label, k, option_content) ==
    \/ Upper(correct_answer) = label
    \/ correct_answer = ToStr(k)
    \/ Upper(correct_answer) = Upper(option_content)

\* the three comparisons of the option loop, made for every option on its own
ClozeIsCorrect(correct_answer, label, k, option_content) ==
    \/ Upper(correct_answer) = label
    \/ correct_answer = ToStr(k)
    \/ correct_answer = option_content

ClozeOption(options_list, k, correct_answer) ==
    Let(ClozeLabel(k, Len(options_list)), LAMBDA label :
        [label      |-> label,
         content    |-> options_list[k],
         is_correct |-> ClozeIsCorrect(correct_answer, label, k, options_list[k])])

\* [opt.strip() for opt in options_str.split('|')]
OptionsList(options_str) ==
    Let(SplitOn(options_str, "|"), LAMBDA segs : [k \in 1..Len(segs) |-> Strip(segs[k])])

ClozeOptions(options_str, correct_answer) ==
    Let(OptionsList(options_str), LAMBDA options_list :
        [k \in 1..Len(options_list) |-> ClozeOption(options_list, k, correct_answer)])

\* a faulty variant of the variant rule: the two cloze variants exchanged
ClozeQuestionTypeSwapped(tarea_number) ==
    IF tarea_number = 4 THEN "cloze_mc" ELSE "cloze_fragments"

ClozeQuestionType(tarea_number) == IF tarea_number = 4 THEN "cloze_fragments" ELSE "cloze_mc"

ClozeQuestion(m, question_type) ==
    [question_id   |-> ToInt(m.g1),
     gap_id        |-> "gap" \o ToStr(ToInt(m.g1)),
     question_type |-> question_type,
     options       |-> ClozeOptions(m.g2, Strip(m.g3))]

\* the result of the extraction over the gap matches ms
ClozeExtraction(text, ms, question_type) ==
    [text          |-> Splice(text, ms, [k \in 1..Len(ms) |-> "___GAP" \o ms[k].g1 \o "___"]),
     questions     |-> [k \in 1..Len(ms) |-> ClozeQuestion(ms[k], question_type)],
     question_type |-> question_type]

extract_cloze_questions(text, tarea_number) ==
    ClozeExtraction(text, AllMatches(MatchTable(text, GapAt), 1), ClozeQuestionType(tarea_number))

(***************************************************************************)
(* Discrete grammar                                                        *)
(***************************************************************************)
\* a faulty variant of the pair: without a closing tag the rest of the text is taken
PairGroupOpenEnded(s, p, tag, j) ==
    IF j = 0 THEN Match(p, Len(s) + 1, From(s, p + Len(tag)), "", "")
    ELSE Match(p, j + Len(tag), SubSeq(s, p + Len(tag), j - 1), "", "")

\* tag + '(.*?)' + tag with re.DOTALL tried at position p, the closing tag at j
PairGroup(s, p, tag, j) ==
    IF j = 0 THEN NoMatch ELSE Match(p, j + Len(tag), SubSeq(s, p + Len(tag), j - 1), "", "")

PairAt(s, p, tag) ==
    IF ~At(s, p, tag) THEN NoMatch ELSE PairGroup(s, p, tag, Find(s, tag, p + Len(tag)))

\* r'::question::(.*?)::question::' with re.DOTALL tried at position p
QuestionBlockAt(s, p) == PairAt(s, p, "::question::")

\* r'\d+\.\s+' matches at position e (the lookahead of the question pattern)
QuestionMarkerAt(s, e) ==
    /\ e <= Len(s)
    /\ IsDigit(Ch(s, e))
    /\ Let(SkipDigits(s, e), LAMBDA d :
           At(s, d, ".") /\ d + 1 <= Len(s) /\ IsSpace(Ch(s, d + 1)))

\* '$' without re.MULTILINE: the end of the string, or before a final newline
DollarAt(s, e) == e = Len(s) + 1 \/ (e = Len(s) /\ Ch(s, e) = "\n")

\* the end of the lazy (.+?) that started at c: the first e > c where the lookahead holds
QuestionContentEnd(s, c) ==
    LeastOr({e \in (c + 1)..Len(s) : QuestionMarkerAt(s, e) \/ DollarAt(s, e)}, Len(s) + 1)

\* the groups of the question pattern: digits up to d, content from c
QuestionGroups(s, p, d, c) ==
    IF c <= Len(s)
    THEN Let(QuestionContentEnd(s, c), LAMBDA e :
             Match(p, e, SubSeq(s, p, d - 1), SubSeq(s, c, e - 1), ""))
    ELSE IF c - (d + 1) >= 2
    THEN Match(p, Len(s) + 1, SubSeq(s, p, d - 1), Ch(s, Len(s)), "")
    ELSE NoMatch

\* r'(\d+)\.\s+(.+?)(?=\d+\.\s+|$)' with re.DOTALL tried at position p
QuestionAt(s, p) ==
    IF ~QuestionMarkerAt(s, p) THEN NoMatch
    ELSE Let(SkipDigits(s, p), LAMBDA d : QuestionGroups(s, p, d, SkipSpace(s, d + 1)))

\* r'::answer:([A-Z])::' tried at position p
AnswerAt(s, p) ==
    IF At(s, p, "::answer:") /\ p + 9 <= Len(s) /\ Ch(s, p + 9) \in UpperSet /\ At(s, p + 10, "::")
    THEN Match(p, p + 12, Ch(s, p + 9), "", "")
    ELSE NoMatch

\* re.sub(r'::answer:[A-Z]::', '', content)
StripAnswerMarkers(content) == Delete(content, AllMatches(MatchTable(content, AnswerAt), 1))

\* re.match(r'\[([A-Z])\]\s+(.+)', line) for a stripped line without newline
OptionMatch(line) ==
    IF /\ Len(line) >= 5
       /\ Ch(line, 1) = "["
       /\ Ch(line, 2) \in UpperSet
       /\ Ch(line, 3) = "]"
       /\ IsSpace(Ch(line, 4))
       /\ SkipSpace(line, 4) <= Len(line)
    THEN Match(1, Len(line) + 1, Ch(line, 2), From(line, SkipSpace(line, 4)), "")
    ELSE NoMatch

\* no marker seen in a question yet (correct_answer = None)
NoAnswer == ""

\* the option a line adds to the list, if it is an option line
LineOption(option_match) ==
    IF option_match.ok
    THEN <<[label      |-> option_match.g1,
            content    |-> Strip(StripAnswerMarkers(Strip(option_match.g2))),
            is_correct |-> FALSE]>>
    ELSE <<>>

\* a faulty variant of the assignment: the first marker of a question is kept
LineAnswerFirst(answer_match, correct_answer) ==
    IF answer_match.ok /\ correct_answer = NoAnswer THEN answer_match.g1 ELSE correct_answer

\* correct_answer after a line: the letter of its first marker, if it has one
LineAnswer(answer_match, correct_answer) ==
    IF answer_match.ok THEN answer_match.g1 ELSE correct_answer

\* the loop over lines[1:] from line k on
RECURSIVE ScanOptionLines(_, _, _, _)
ScanOptionLines(lines, k, options, correct_answer) ==
    IF k > Len(lines) THEN [options |-> options, correct_answer |-> correct_answer]
    ELSE Let(Strip(lines[k]), LAMBDA line :
             IF line = "" THEN ScanOptionLines(lines, k + 1, options, correct_answer)
             ELSE ScanOptionLines(lines, k + 1,
                                  options \o LineOption(OptionMatch(line)),
                                  LineAnswer(FirstMatch(MatchTable(line, AnswerAt), 1), correct_answer)))

\* if correct_answer: every option whose label equals it becomes correct
MarkCorrect(options, correct_answer) ==
    IF correct_answer = NoAnswer THEN options
    ELSE [k \in 1..Len(options) |->
            IF options[k].label = correct_answer
            THEN [options[k] EXCEPT !.is_correct = TRUE]
            ELSE options[k]]

\* a faulty variant of the append: a question without options is kept
QuestionOfAlways(question_num, stem, options) ==
    <<[question_id   |-> question_num,
       stem          |-> stem,
       options       |-> options,
       question_type |-> "single_choice"]>>

\* if options: the question is appended
QuestionOf(question_num, stem, options) ==
    IF Len(options) > 0
    THEN <<[question_id   |-> question_num,
            stem          |-> stem,
            options       |-> options,
            question_type |-> "single_choice"]>>
    ELSE <<>>

\* the body of the loop over the question matches for one match: a question, or none
ParseQuestion(m) ==
    Let(SplitOn(Strip(m.g2), "\n"), LAMBDA lines :
    Let(ScanOptionLines(lines, 2, <<>>, NoAnswer), LAMBDA scan :
        QuestionOf(ToInt(m.g1), Strip(lines[1]), MarkCorrect(scan.options, scan.correct_answer))))

QuestionsOf(ms) == ConcatAll([k \in 1..Len(ms) |-> ParseQuestion(ms[k])])

parse_question_block(block) == QuestionsOf(AllMatches(MatchTable(block, QuestionAt), 1))

\* a faulty variant of the extraction: the text left over is stripped
QuestionExtractionStripped(text, ms) ==
    [text      |-> Strip(Delete(text, ms)),
     questions |-> ConcatAll([k \in 1..Len(ms) |-> parse_question_block(Strip(ms[k].g1))])]

\* the result of the extraction over the block matches ms
QuestionExtraction(text, ms) ==
    [text      |-> Delete(text, ms),
     questions |-> ConcatAll([k \in 1..Len(ms) |-> parse_question_block(Strip(ms[k].g1))])]

extract_questions(text) == QuestionExtraction(text, AllMatches(MatchTable(text, QuestionBlockAt), 1))

(***************************************************************************)
(* Paragraph splitting and decoding                                        *)
(***************************************************************************)
\* r'\n---+\n' tried at position p
SeparatorAt(s, p) ==
    IF ~At(s, p, "\n---") THEN NoMatch
    ELSE Let(SkipHyphens(s, p + 1), LAMBDA h :
             IF At(s, h, "\n") THEN Match(p, h + 1, "", "", "") ELSE NoMatch)

\* re.split(r'\n---+\n', s)
SplitParagraphs(s) == Outside(s, AllMatches(MatchTable(s, SeparatorAt), 1))

\* a faulty variant of the lookahead: only ::zh:: ends the Spanish part
SpanishEndZhOnly(s) ==
    LeastOr({e \in 1..Len(s) : At(s, e, "::zh::") \/ DollarAt(s, e)}, Len(s) + 1)

\* the end of the lazy (.*?) of r'^(.*?)(?=::zh::|::grammar::|$)' with re.DOTALL
SpanishEnd(s) ==
    LeastOr({e \in 1..Len(s) : At(s, e, "::zh::") \/ At(s, e, "::grammar::") \/ DollarAt(s, e)},
            Len(s) + 1)

\* r'___GAP\d+___' tried at position p
GapMarkAt(s, p) ==
    IF ~At(s, p, "___GAP") THEN NoMatch
    ELSE Let(SkipDigits(s, p + 6), LAMBDA d :
             IF d > p + 6 /\ At(s, d, "___") THEN Match(p, d + 3, "", "", "") ELSE NoMatch)

\* a faulty variant of the substitution: only the first placeholder is shown
ReplaceGapMarksFirst(s, ms) ==
    IF Len(ms) = 0 THEN s ELSE Splice(s, <<ms[1]>>, <<"[___]">>)

\* re.sub(r'___GAP\d+___', '[___]', text_es)
ReplaceGapMarks(s, ms) == Splice(s, ms, [k \in 1..Len(ms) |-> "[___]"])

\* r'::zh::(.*?)::zh::' with re.DOTALL tried at position p
ZhAt(s, p) == PairAt(s, p, "::zh::")

\* a faulty variant of the grammar pair: an opening delimiter alone takes the rest
GrammarAtOpenEnded(s, p) ==
    IF ~At(s, p, "::grammar::") THEN NoMatch
    ELSE PairGroupOpenEnded(s, p, "::grammar::", Find(s, "::grammar::", p + 11))

\* r'::grammar::(.*?)::grammar::' with re.DOTALL tried at position p
GrammarAt(s, p) == PairAt(s, p, "::grammar::")

\* the groups of the note pattern: word of a characters, "[" at b, "]" at r
NoteGroups(line, a, b, r) ==
    IF r > 0
    THEN Match(1, Len(line) + 1, SubSeq(line, 1, a), SubSeq(line, b + 1, r - 1),
               From(line, SkipSpace(line, r + 1)))
    ELSE NoMatch

\* re.match(r'(.+?)\s*\[(.+?)\]\s*(.+)', line) for a stripped line without
\* newline, with a first group of a characters
NoteAt(line, a) ==
    Let(SkipSpace(line, a + 1), LAMBDA b :
        IF b <= Len(line) /\ Ch(line, b) = "["
        THEN NoteGroups(line, a, b, LeastOr({r \in (b + 2)..(Len(line) - 1) : Ch(line, r) = "]"}, 0))
        ELSE NoMatch)

\* the note of a line that starts with '-', if the rest is a note
NoteOf(note_match) ==
    IF note_match.ok
    THEN <<[word |-> Strip(note_match.g1),
            type |-> Strip(note_match.g2),
            note |-> Strip(note_match.g3)]>>
    ELSE <<>>

\* the body of the loop over the lines of the grammar block
LineNote(line) ==
    IF At(line, 1, "-")
    THEN NoteOf(FirstMatch(MatchTable(Strip(From(line, 2)), NoteAt), 1))
    ELSE <<>>

GrammarNotes(lines) == ConcatAll([k \in 1..Len(lines) |-> LineNote(Strip(lines[k]))])

TextZh(zh_match) == IF zh_match.ok THEN Strip(zh_match.g1) ELSE ""

NotesOf(grammar_match) ==
    IF grammar_match.ok THEN GrammarNotes(SplitOn(Strip(grammar_match.g1), "\n")) ELSE <<>>

\* text_es: the Spanish part, stripped, each gap placeholder shown as [___]
TextEs(raw_para) ==
    Let(Strip(SubSeq(raw_para, 1, SpanishEnd(raw_para) - 1)), LAMBDA text_es :
        ReplaceGapMarks(text_es, AllMatches(MatchTable(text_es, GapMarkAt), 1)))

\* a faulty variant of the paragraph record: end_char counted from the raw paragraph
parse_paragraph_raw_end(raw_para, paragraph_id, start_char) ==
    [paragraph_id  |-> "p" \o ToStr(paragraph_id),
     text_es       |-> TextEs(raw_para),
     text_zh       |-> TextZh(FirstMatch(MatchTable(raw_para, ZhAt), 1)),
     start_char    |-> start_char,
     end_char      |-> start_char + Len(raw_para),
     grammar_notes |-> NotesOf(FirstMatch(MatchTable(raw_para, GrammarAt), 1))]

parse_paragraph(raw_para, paragraph_id, start_char) ==
    Let(TextEs(raw_para), LAMBDA text_es :
        [paragraph_id  |-> "p" \o ToStr(paragraph_id),
         text_es       |-> text_es,
         text_zh       |-> TextZh(FirstMatch(MatchTable(raw_para, ZhAt), 1)),
         start_char    |-> start_char,
         end_char      |-> start_char + Len(text_es),
         grammar_notes |-> NotesOf(FirstMatch(MatchTable(raw_para, GrammarAt), 1))])

\* the loop over the fragments from fragment idx + 1 = k on
RECURSIVE ParseParagraphs(_, _, _)
ParseParagraphs(raw_paragraphs, k, current_char_pos) ==
    IF k > Len(raw_paragraphs) THEN <<>>
    ELSE Let(Strip(raw_paragraphs[k]), LAMBDA raw_para :
             IF raw_para = "" THEN ParseParagraphs(raw_paragraphs, k + 1, current_char_pos)
             ELSE Let(parse_paragraph(raw_para, k, current_char_pos), LAMBDA para_data :
                      <<para_data>> \o
                      ParseParagraphs(raw_paragraphs, k + 1,
                                      current_char_pos + Len(para_data.text_es) + 1)))

(***************************************************************************)
(* The linguistic analyzer (spaCy, self.nlp): text to tokens.  A token     *)
(* carries text, idx (0-based offset), is_punct, is_space, lemma_, pos_.   *)
(* Runs of letters and digits are words, every other visible character is  *)
(* a punctuation token, one blank after a token is its trailing white      *)
(* space and any other white space is a space token.  The lemma and the    *)
(* part of speech of the w-th word are what the tagger says (tg[w]); past  *)
(* the tagger's list a word is its own lemma and a noun.                   *)
(***************************************************************************)
IsWordStart(s, p) == IsAlnum(Ch(s, p)) /\ (p = 1 \/ ~IsAlnum(Ch(s, p - 1)))

IsPunctStart(s, p) == ~IsAlnum(Ch(s, p)) /\ ~IsSpace(Ch(s, p))

\* white space starts a token at the start of the text, after a token unless
\* it is that token's one trailing blank, and right after such a blank
IsSpaceStart(s, p) ==
    /\ IsSpace(Ch(s, p))
    /\ \/ p = 1
       \/ ~IsSpace(Ch(s, p - 1)) /\ Ch(s, p) # " "
       \/ p >= 3 /\ Ch(s, p - 1) = " " /\ ~IsSpace(Ch(s, p - 2))

Positions(s) == [p \in 1..Len(s) |-> p]

TokenStarts(s) ==
    SelectSeq(Positions(s), LAMBDA p : IsWordStart(s, p) \/ IsPunctStart(s, p) \/ IsSpaceStart(s, p))

\* the number of words that start at or before position p
WordNumber(s, p) == Cardinality({q \in 1..p : IsWordStart(s, q)})

WordToken(text, pos, w, tg) ==
    [text     |-> text,
     idx      |-> pos - 1,
     is_punct |-> FALSE,
     is_space |-> FALSE,
     lemma_   |-> IF w <= Len(tg) THEN tg[w].lemma ELSE Lower(text),
     pos_     |-> IF w <= Len(tg) THEN tg[w].pos ELSE "NOUN"]

OtherToken(text, pos, space) ==
    [text     |-> text,
     idx      |-> pos - 1,
     is_punct |-> ~space,
     is_space |-> space,
     lemma_   |-> text,
     pos_     |-> IF space THEN "SPACE" ELSE "PUNCT"]

TokenAt(s, p, tg) ==
    IF IsAlnum(Ch(s, p)) THEN WordToken(SubSeq(s, p, SkipAlnum(s, p) - 1), p, WordNumber(s, p), tg)
    ELSE IF IsSpace(Ch(s, p)) THEN OtherToken(SubSeq(s, p, SkipSpace(s, p) - 1), p, TRUE)
    ELSE OtherToken(Ch(s, p), p, FALSE)

TokensAt(s, starts, tg) == [k \in 1..Len(starts) |-> TokenAt(s, starts[k], tg)]

\* doc = self.nlp(text)
nlp(text, tg) == TokensAt(text, TokenStarts(text), tg)

(***************************************************************************)
(* The lexicon maps                                                        *)
(***************************************************************************)
\* self._word_mapping = None
NoneMap == [is_none |-> TRUE, map |-> <<>>]

\* self._word_mapping = {}
EmptyMap == [is_none |-> FALSE, map |-> <<>>]

\* d[key] = value
DictSet(d, key, value) == [x \in (DOMAIN d) \cup {key} |-> IF x = key THEN value ELSE d[x]]

\* d.setdefault(key, []).append(value)
DictAppend(d, key, value) ==
    [x \in (DOMAIN d) \cup {key} |->
       IF x = key THEN (IF key \in DOMAIN d THEN Append(d[key], value) ELSE <<value>>) ELSE d[x]]

\* the loop over the rows from the k-th row on
RECURSIVE BuildMaps(_, _, _, _)
BuildMaps(ws, k, mapping, fallback) ==
    IF k > Len(ws) THEN [mapping |-> mapping, fallback |-> fallback]
    ELSE BuildMaps(ws, k + 1,
                   DictSet(mapping, <<Lower(ws[k].lemma), Lower(ws[k].pos)>>, ws[k].id),
                   DictAppend(fallback, Lower(ws[k].lemma), ws[k].id))

\* a faulty variant of the error handling: no except clause, the failure propagates
LexiconErrorRaised == [mapping |-> NoneMap, fallback |-> NoneMap, raised |-> TRUE]

\* what _init_word_mapping does when the query raises: the except clause
OnLexiconError == [mapping |-> EmptyMap, fallback |-> EmptyMap, raised |-> FALSE]

\* the maps the try block leaves when the query succeeds
Built(built) ==
    [mapping  |-> [is_none |-> FALSE, map |-> built.mapping],
     fallback |-> [is_none |-> FALSE, map |-> built.fallback],
     raised   |-> FALSE]

\* _init_word_mapping: the maps after the call, and whether it raised
init_word_mapping(mapping, fallback, session, fails, ws) ==
    IF ~mapping.is_none THEN [mapping |-> mapping, fallback |-> fallback, raised |-> FALSE]
    ELSE IF ~session THEN [mapping |-> EmptyMap, fallback |-> EmptyMap, raised |-> FALSE]
    ELSE IF fails THEN OnLexiconError
    ELSE Built(BuildMaps(ws, 1, <<>>, <<>>))

\* the queries _init_word_mapping sends to the words table: one when the
\* maps are not built and there is a session
Queries(mapping, session) == IF mapping.is_none /\ session THEN 1 ELSE 0

\* word_id = None
NoWordId == 0

\* a faulty variant of the lookup: the surface form is tried before the lemma
LookupSurfaceFirst(word_text, lemma, pos, mapping, fallback) ==
    IF <<lemma, pos>> \in DOMAIN mapping THEN mapping[<<lemma, pos>>]
    ELSE IF word_text \in DOMAIN fallback THEN fallback[word_text][1]
    ELSE IF lemma \in DOMAIN fallback THEN fallback[lemma][1]
    ELSE NoWordId

\* the three lookup strategies of _generate_annotations
LookupWordId(word_text, lemma, pos, mapping, fallback) ==
    IF <<lemma, pos>> \in DOMAIN mapping THEN mapping[<<lemma, pos>>]
    ELSE IF lemma \in DOMAIN fallback THEN fallback[lemma][1]
    ELSE IF word_text \in DOMAIN fallback THEN fallback[word_text][1]
    ELSE NoWordId

\* the indices (1-based) of the tokens that are neither punctuation nor space
WordIndices(doc) ==
    SelectSeq([k \in 1..Len(doc) |-> k], LAMBDA k : ~(doc[k].is_punct \/ doc[k].is_space))

\* the dictionary appended for token i at offset k = i + 1
Annotation(i, token, mapping, fallback) ==
    [index      |-> i,
     word       |-> token.text,
     lemma      |-> Lower(token.lemma_),
     pos        |-> Lower(token.pos_),
     start_char |-> token.idx,
     end_char   |-> token.idx + Len(token.text),
     word_id    |-> LookupWordId(Lower(token.text), Lower(token.lemma_), Lower(token.pos_),
                                 mapping, fallback)]

AnnotationsAt(doc, ks, mapping, fallback) ==
    [j \in 1..Len(ks) |-> Annotation(ks[j] - 1, doc[ks[j]], mapping, fallback)]

generate_annotations(doc, mapping, fallback) == AnnotationsAt(doc, WordIndices(doc), mapping, fallback)

\* the dictionary the lemma loop appends for token i
LemmaEntry(i, token) ==
    [index      |-> i,
     word       |-> token.text,
     lemma      |-> token.lemma_,
     pos        |-> token.pos_,
     start_char |-> token.idx,
     end_char   |-> token.idx + Len(token.text)]

LemmasAt(doc, ks) == [j \in 1..Len(ks) |-> LemmaEntry(ks[j] - 1, doc[ks[j]])]

\* a faulty variant of the lemma loop: punctuation is not skipped
LemmasWithPunct(doc) ==
    LemmasAt(doc, SelectSeq([k \in 1..Len(doc) |-> k], LAMBDA k : ~doc[k].is_space))

\* the loop that fills result["lemmas"]
Lemmas(doc) == LemmasAt(doc, WordIndices(doc))

Tally(doc, ks) ==
    [p \in {doc[ks[j]].pos_ : j \in 1..Len(ks)} |->
       Cardinality({j \in 1..Len(ks) : doc[ks[j]].pos_ = p})]

\* the loop that fills result["pos_distribution"]
PosDistribution(doc) == Tally(doc, WordIndices(doc))

(***************************************************************************)
(* parse                                                                   *)
(***************************************************************************)
\* the dictionary parse starts from
EmptyResult ==
    [tarea_number     |-> 0,
     title            |-> NoTitle,
     raw_markup_text  |-> "",
     plain_text_es    |-> "",
     paragraphs       |-> <<>>,
     questions        |-> <<>>,
     question_type    |-> "single_choice",
     lemmas           |-> <<>>,
     pos_distribution |-> <<>>,
     annotations      |-> <<>>]

\* the else branch of step 2
Discrete(extracted) ==
    [text          |-> extracted.text,
     questions     |-> extracted.questions,
     question_type |-> "single_choice"]

\* step 2 of parse: the grammar is chosen by the tarea number
ExtractByTarea(raw_markup_text, tarea_number) ==
    IF tarea_number \in {4, 5}
    THEN extract_cloze_questions(raw_markup_text, tarea_number)
    ELSE Discrete(extract_questions(raw_markup_text))

\* '\n\n'.join(spanish_text_parts)
PlainText(paragraphs) == Join([k \in 1..Len(paragraphs) |-> paragraphs[k].text_es], "\n\n")

\* steps 3 to 5 of parse
Paragraphs(text) == ParseParagraphs(SplitParagraphs(remove_metadata_tags(text)), 1, 0)

\* steps 7 and 8 of parse
Analysed(res, doc, mapping, fallback) ==
    [res EXCEPT !.lemmas = Lemmas(doc),
                !.pos_distribution = PosDistribution(doc),
                !.annotations = generate_annotations(doc, mapping, fallback)]

\* steps 1 to 6 of parse
Structured(raw_markup_text, tarea_number, extracted, paragraphs) ==
    [EmptyResult EXCEPT !.tarea_number = tarea_number,
                        !.title = extract_title(raw_markup_text),
                        !.raw_markup_text = raw_markup_text,
                        !.plain_text_es = PlainText(paragraphs),
                        !.paragraphs = paragraphs,
                        !.questions = extracted.questions,
                        !.question_type = extracted.question_type]

\* gap_number = int(match.group(1)) raises in the loop of _extract_cloze_questions
ClozeRaises(text) == AnyIntRaises(AllMatches(MatchTable(text, GapAt), 1))

\* question_num = int(match.group(1)) raises in the loop of _parse_question_block
BlockRaises(block) == AnyIntRaises(AllMatches(MatchTable(block, QuestionAt), 1))

\* _parse_question_block raises for one of the block matches ms
AnyBlockRaises(ms) == \E k \in 1..Len(ms) : BlockRaises(Strip(ms[k].g1))

DiscreteRaises(text) == AnyBlockRaises(AllMatches(MatchTable(text, QuestionBlockAt), 1))

\* steps 1 and 2 of parse raise for the tarea match m: the conversion of the
\* tarea number, or else the extraction the number selects
NumberRaises(raw_markup_text, m) ==
    IF m.ok /\ IntRaises(m.g1) THEN TRUE
    ELSE IF IntOrOne(m) \in {4, 5} THEN ClozeRaises(raw_markup_text)
    ELSE DiscreteRaises(raw_markup_text)

\* parse(raw_markup_text) raises ValueError
ParseRaises(raw_markup_text) ==
    NumberRaises(raw_markup_text, FirstMatch(MatchTable(raw_markup_text, TareaAt), 1))

\* parse(raw_markup_text) with the lexicon maps _generate_annotations reads
parse(raw_markup_text, mapping, fallback, tg) ==
    Let(extract_tarea_number(raw_markup_text), LAMBDA tarea_number :
    Let(ExtractByTarea(raw_markup_text, tarea_number), LAMBDA extracted :
    Let(Structured(raw_markup_text, tarea_number, extracted, Paragraphs(extracted.text)), LAMBDA res :
        Analysed(res, nlp(res.plain_text_es, tg), mapping, fallback))))

(***************************************************************************)
(* Annotated HTML                                                          *)
(***************************************************************************)
Min(a, b) == IF a < b THEN a ELSE b

\* s[a:b] of Python for 0 <= a (the slice is clipped to the string)
Slice(s, a, b) == IF a >= Min(b, Len(s)) THEN "" ELSE SubSeq(s, a + 1, Min(b, Len(s)))

\* sorted(annotations, key=start_char): a stable insertion sort
RECURSIVE InsertByStart(_, _)
InsertByStart(sorted, ann) ==
    IF Len(sorted) = 0 THEN <<ann>>
    ELSE IF sorted[Len(sorted)].start_char <= ann.start_char THEN Append(sorted, ann)
    ELSE Append(InsertByStart(SubSeq(sorted, 1, Len(sorted) - 1), ann), sorted[Len(sorted)])

RECURSIVE SortByStart(_, _, _)
SortByStart(anns, k, sorted) ==
    IF k > Len(anns) THEN sorted ELSE SortByStart(anns, k + 1, InsertByStart(sorted, anns[k]))

\* the f-string of the annotated word
SpanOf(ann) ==
    "<span data-word-id=\"" \o (IF ann.word_id = NoWordId THEN "" ELSE ToStr(ann.word_id))
    \o "\" data-lemma=\"" \o ann.lemma
    \o "\" data-pos=\"" \o ann.pos
    \o "\" class=\"word-link\">" \o ann.word \o "</span>"

\* the text before the k-th sorted annotation, if any
Before(plain_text_es, start, last_pos) ==
    IF start > last_pos THEN Slice(plain_text_es, last_pos, start) ELSE ""

\* the remaining text after the last annotation
Rest(plain_text_es, last_pos) ==
    IF last_pos < Len(plain_text_es) THEN Slice(plain_text_es, last_pos, Len(plain_text_es)) ELSE ""

\* what the loop over the sorted annotations appends, and the remaining text
HtmlParts(plain_text_es, anns) ==
    [k \in 1..(Len(anns) + 1) |->
       IF k > Len(anns) THEN Rest(plain_text_es, IF k = 1 THEN 0 ELSE anns[k - 1].end_char)
       ELSE Before(plain_text_es, anns[k].start_char, IF k = 1 THEN 0 ELSE anns[k - 1].end_char)
            \o SpanOf(anns[k])]

generate_annotated_html(plain_text_es, annotations) ==
    IF Len(annotations) = 0 THEN plain_text_es
    ELSE Concat(HtmlParts(plain_text_es, SortByStart(annotations, 1, <<>>)))

\* the annotations whose start lies in the paragraph's range
ParaAnnotations(para, annotations) ==
    SelectSeq(annotations, LAMBDA ann : para.start_char <= ann.start_char /\ ann.start_char < para.end_char)

\* the annotations rebased to the paragraph's start
Adjusted(para, anns) ==
    [k \in 1..Len(anns) |->
       [anns[k] EXCEPT !.start_char = @ - para.start_char, !.end_char = @ - para.start_char]]

\* para.copy() with html_es added
WithHtml(para, html_es) ==
    [paragraph_id  |-> para.paragraph_id,
     text_es       |-> para.text_es,
     text_zh       |-> para.text_zh,
     start_char    |-> para.start_char,
     end_char      |-> para.end_char,
     grammar_notes |-> para.grammar_notes,
     html_es       |-> html_es]

ParagraphHtml(para, annotations) ==
    WithHtml(para, generate_annotated_html(para.text_es, Adjusted(para, ParaAnnotations(para, annotations))))

generate_paragraph_html(paragraphs, annotations) ==
    [k \in 1..Len(paragraphs) |-> ParagraphHtml(paragraphs[k], annotations)]

(***************************************************************************)
(* Inputs                                                                  *)
(***************************************************************************)
MaxParas == 3

MaxOptions == 6

MaxLines == 3

MaxWords == 2

MaxTags == 2

SeqsFromTo(S, m, n) == UNION {[1..k -> S] : k \in m..n}

\* what may stand before the first paragraph
Headers == {"", "::tarea:2::\n", "::tarea:4::\n", "::tarea:5:: ::title: Un dia ::\n"}

\* paragraph blocks as an author writes them
Blocks ==
    {"Hola casa.",
     "La casa ::zh::fangzi::zh::",
     "::zh::solo::zh::",
     "El [[gap1|a|b]]answer:a[[/gap]] dia",
     "::question::\n1. Que\n[A] si ::answer:A::\n::question::",
     "Ver ::grammar::\n- ver [verbo] mirar\n::grammar::"}

Documents ==
    {h \o Join(bs, "\n---\n") : h \in Headers, bs \in SeqsFromTo(Blocks, 1, MaxParas)}

\* the option texts and the answer markers of a gap
ClozeOptionTexts == {"A", "B"}

ClozeMarkers == {"A", "b", "2", "x"}

GapTag(opts, marker) == "[[gap1|" \o Join(opts, "|") \o "]]answer:" \o marker \o "[[/gap]]"

\* cloze documents: one gap with 1 to MaxOptions options
ClozeDocuments ==
    {"::tarea:" \o t \o "::\nEl " \o GapTag(opts, m) \o " dia" :
        t \in {"4", "5"}, opts \in SeqsFromTo(ClozeOptionTexts, 1, MaxOptions), m \in ClozeMarkers}

\* the lines that may follow the stem of a discrete question
QuestionLines ==
    {"[A] si", "[A] no ::answer:A::", "[B] no", "[B] si ::answer:B::", "::answer:C::"}

\* discrete documents: one question with 1 to MaxLines lines after the stem
DiscreteDocuments ==
    {"Texto.\n::question::\n1. Que\n" \o Join(ls, "\n") \o "\n::question::" :
        ls \in SeqsFromTo(QuestionLines, 1, MaxLines)}

\* the bodies of numbered questions: a stem line and the lines after it, with
\* the answer marker at the end of an option line, before its label, inside
\* its content, right after its label, on two lines, or on none
QuestionBodies ==
    {"Que\n[A] si\n[B] no ::answer:B::",
     "Cual",
     "Como\n::answer:A:: [A] si\n[B] no",
     "Quien\n[A] si ::answer:A:: ya\n[B] no",
     "Donde\n[A] ::answer:B::si\n[B] no ::answer:A::",
     "Cuando\n[A] si\n\n[C] no"}

\* the largest number of questions of a block
MaxQuestions == 2

Numbered(bodies) == [k \in 1..Len(bodies) |-> ToStr(k) \o ". " \o bodies[k]]

\* documents with one question block of 1 to MaxQuestions numbered questions
QuestionDocuments ==
    {"Texto.\n::question::\n" \o Join(Numbered(bs), "\n") \o "\n::question::" :
        bs \in SeqsFromTo(QuestionBodies, 1, MaxQuestions)}

\* stems with and without '<integer>. ' in the middle of the line
Stems == {"Cual", "Paso en 2020. El autor", "Vio 3. y 4. a"}

\* option lines with and without '<integer>. ' in the middle of the line
StemLines == {"[A] si ::answer:A::", "[B] en 2020. Fin", "[B] no"}

\* documents with one question whose marker is the only one at a line start
StemDocuments ==
    {"Texto.\n::question::\n1. " \o stem \o "\n" \o Join(ls, "\n") \o "\n::question::" :
        stem \in Stems, ls \in SeqsFromTo(StemLines, 1, MaxLines)}

\* the lines of a document body: text, separator lines of three and of five
\* hyphens, a translation, a grammar block without and with its closing
\* delimiter, a translation without its closing delimiter, a gap placeholder
BodyLines ==
    {"Uno",
     "---",
     "-----",
     "Dos ::zh:: er ::zh:: y",
     "Tres ::grammar::\n- a [b] c",
     "Ver ::grammar::\n- ver [verbo] mirar\n::grammar::",
     "Que ::zh:: sin",
     "El ___GAP1___ dia ::zh::x"}

\* the largest number of such lines in a document
MaxBodyLines == 3

\* documents without metadata, of 1 to MaxBodyLines lines
BodyDocuments == {Join(ls, "\n") : ls \in SeqsFromTo(BodyLines, 1, MaxBodyLines)}

\* tarea tags, well formed and not
TareaTags == {"::tarea:3::", "::tarea:12::", "::tarea:x::"}

\* title tags: none, padded, two in a row, unclosed, blank
TitleTags == {"", "::title: Un dia ::", "::title:Dos:: ::title:Tres::", "::title:sin", "::title: ::"}

\* the largest number of tarea tags of a document
MaxTareaTags == 2

\* documents with 0 to MaxTareaTags tarea tags and a title before the text
MetaDocuments ==
    {Join(ts, " ") \o " " \o title \o "\nHola casa." :
        ts \in SeqsFromTo(TareaTags, 0, MaxTareaTags), title \in TitleTags}

\* the rows of the words table with lang_code "es"
Rows ==
    {[id |-> 1, lemma |-> "hola", pos |-> "intj"],
     [id |-> 2, lemma |-> "casa", pos |-> "noun"],
     [id |-> 3, lemma |-> "Casa", pos |-> "NOUN"],
     [id |-> 4, lemma |-> "casa", pos |-> "verb"]}

IsInjective(f) == \A a, b \in DOMAIN f : f[a] = f[b] => a = b

\* the table's content in the order the query returns it
Lexicons == {ws \in SeqsFromTo(Rows, 0, MaxWords) : IsInjective(ws)}

DefaultLexicon ==
    <<[id |-> 1, lemma |-> "hola", pos |-> "intj"], [id |-> 2, lemma |-> "casa", pos |-> "noun"]>>

\* what the tagger may say of a word
Taggings == [lemma : {"hola", "casa", "ir"}, pos : {"INTJ", "NOUN"}]

Taggers == SeqsFromTo(Taggings, 0, MaxTags)

\* documents with punctuation and white space between their words
TokenDocuments ==
    {"Hola, casa.",
     "Hola casa.\n---\nLa casa",
     "Uno. Dos\n---\n::zh::solo::zh::"}

MaxGaps == 3

\* pieces of a cloze text: gap tags with one or two digits, alone or inside a
\* phrase, a phrase without a tag and a tag without its answer part
GapPieces ==
    {"El [[gap1|a|b]]answer:a[[/gap]] dia",
     "[[gap2|c]]answer:c[[/gap]]",
     "y [[gap12|a|b]]answer:B[[/gap]].",
     "Hola casa.",
     "[[gap3|x]] roto"}

\* cloze documents: 1 to MaxGaps pieces on one line or one per paragraph
GapDocuments ==
    {"::tarea:" \o t \o "::\n" \o Join(ps, sep) :
        t \in {"4", "5"}, sep \in {" ", "\n---\n"}, ps \in SeqsFromTo(GapPieces, 1, MaxGaps)}

\* sections of a discrete document: an opening delimiter that is never
\* closed, alone or with the start of a question, plain paragraphs and a
\* well-formed question block
StrayBlocks ==
    {"::question::",
     "::question::\n1. Que\n[A] si",
     "Hola casa.",
     "La casa ::zh::fangzi::zh::",
     "::question::\n2. Cual\n[A] si ::answer:A::\n[B] no\n::question::"}

StrayDocuments ==
    {h \o Join(bs, "\n---\n") : h \in {"", "::tarea:2::\n"}, bs \in SeqsFromTo(StrayBlocks, 1, MaxParas)}

\* s repeated n times
RECURSIVE Repeat(_, _)
Repeat(s, n) ==
    IF n = 0 THEN ""
    ELSE IF n % 2 = 0 THEN Let(Repeat(s, n \div 2), LAMBDA half : half \o half)
    ELSE s \o Repeat(s, n - 1)

\* the numbers an author may write in a tag: short ones, and one with a digit
\* more than int() converts
Numerals == {"4", "12", Repeat("1", MaxStrDigits + 1)}

\* sections with something missing: no translation, an unterminated ::zh::,
\* ::grammar::, ::question:: (its option without an answer marker), gap tag
\* and ::title:
IncompleteBlocks ==
    {"Hola casa.",
     "La casa ::zh::fangzi",
     "Ver ::grammar::\n- ver [verbo] mirar",
     "::question::\n1. Que\n[A] si",
     "El [[gap1|a|b]]answer:a dia",
     "::title:sin"}

\* documents without a header or with a numbered tarea tag, and documents
\* whose gap or question carries the number
NumberDocuments ==
    {h \o Join(bs, "\n---\n") :
        h \in {""} \cup {"::tarea:" \o n \o "::\n" : n \in Numerals},
        bs \in SeqsFromTo(IncompleteBlocks, 1, MaxParas)}
    \cup {"::tarea:4::\nEl [[gap" \o n \o "|a|b]]answer:a[[/gap]] dia" : n \in Numerals}
    \cup {"Texto.\n::question::\n" \o n \o ". Que\n[A] si ::answer:A::\n::question::" : n \in Numerals}

(***************************************************************************)
(* The state machine: one request against a fresh parser                   *)
(***************************************************************************)
\* the passages table before a passage is created
NoPassage ==
    [exists             |-> FALSE,
     tarea_number       |-> 0,
     title              |-> NoTitle,
     raw_markup_text    |-> "",
     plain_text_es      |-> "",
     lemmas             |-> <<>>,
     pos_distribution   |-> <<>>,
     paragraphs         |-> <<>>,
     annotations        |-> <<>>,
     mongo_questions_id |-> FALSE]

\* the questions collection without a document for the passage
NoQuestionDoc == [exists |-> FALSE, tarea_number |-> 0, tarea_type |-> "", questions |-> <<>>]

\* the threads that may call parse on one parser
Threads == {1, 2}

\* a lookup that has not read the maps
NoMaps == [read |-> FALSE, mapping |-> NoneMap, fallback |-> NoneMap]

InitWith(docs, taggers, lexicons, sessions, failures) ==
    /\ raw \in docs
    /\ tags \in taggers
    /\ words \in lexicons
    /\ db_session \in sessions
    /\ db_fails \in failures
    /\ pc = "ready"
    /\ word_mapping = NoneMap
    /\ word_fallback = NoneMap
    /\ result = EmptyResult
    /\ html = <<>>
    /\ loads = 0
    /\ requests = 1
    /\ passage = NoPassage
    /\ question_doc = NoQuestionDoc
    /\ tpc = [t \in Threads |-> "idle"]
    /\ ti = [t \in Threads |-> 0]
    /\ seen = [t \in Threads |-> NoMaps]

Init == InitWith(Documents, {<<>>}, {DefaultLexicon}, {TRUE}, {FALSE})

InitCloze == InitWith(ClozeDocuments, {<<>>}, {DefaultLexicon}, {TRUE}, {FALSE})

InitDiscrete == InitWith(DiscreteDocuments, {<<>>}, {DefaultLexicon}, {TRUE}, {FALSE})

InitQuestions == InitWith(QuestionDocuments, {<<>>}, {DefaultLexicon}, {TRUE}, {FALSE})

InitStems == InitWith(StemDocuments, {<<>>}, {DefaultLexicon}, {TRUE}, {FALSE})

InitBody == InitWith(BodyDocuments, {<<>>}, {DefaultLexicon}, {TRUE}, {FALSE})

InitMeta == InitWith(MetaDocuments, {<<>>}, {DefaultLexicon}, {TRUE}, {FALSE})

InitLex == InitWith({"Hola casa."}, Taggers, Lexicons, BOOLEAN, BOOLEAN)

InitTokens == InitWith(TokenDocuments, Taggers, {DefaultLexicon}, {TRUE}, {FALSE})

InitGaps == InitWith(GapDocuments, {<<>>}, {DefaultLexicon}, {TRUE}, {FALSE})

InitStrays == InitWith(StrayDocuments, {<<>>}, {DefaultLexicon}, {TRUE}, {FALSE})

InitNumbers == InitWith(NumberDocuments, {<<>>}, {DefaultLexicon}, {TRUE}, {FALSE})

\* the state after parser.parse: the maps, the result or the failure
Parsed(init) ==
    /\ word_mapping' = init.mapping
    /\ word_fallback' = init.fallback
    /\ result' = IF init.raised THEN result
                 ELSE parse(raw, init.mapping.map, init.fallback.map, tags)
    /\ pc' = IF init.raised THEN "failed" ELSE "parsed"

\* parser.parse raised before it reached _generate_annotations: the maps and
\* the result are as they were
Raised ==
    /\ pc' = "failed"
    /\ UNCHANGED <<word_mapping, word_fallback, result>>

\* parser.parse(data.markup_text)
Parse ==
    /\ pc = "ready"
    /\ IF ParseRaises(raw)
       THEN Raised /\ UNCHANGED loads
       ELSE /\ Parsed(init_word_mapping(word_mapping, word_fallback, db_session, db_fails, words))
            /\ loads' = loads + Queries(word_mapping, db_session)
    /\ UNCHANGED <<raw, tags, words, db_session, db_fails, html>>
    /\ UNCHANGED <<requests, passage, question_doc, thread_vars>>

\* parser.generate_paragraph_html(result["paragraphs"], result["annotations"])
\* under the caller's guard  if result["annotations"]
Render ==
    /\ pc = "parsed"
    /\ Len(result.annotations) > 0
    /\ html' = generate_paragraph_html(result.paragraphs, result.annotations)
    /\ pc' = "rendered"
    /\ UNCHANGED <<raw, tags, words, db_session, db_fails, word_mapping, word_fallback, result>>
    /\ UNCHANGED <<server_vars, thread_vars>>

Next == Parse \/ Render

Spec == Init /\ [][Next]_vars

SpecCloze == InitCloze /\ [][Next]_vars

SpecDiscrete == InitDiscrete /\ [][Next]_vars

SpecQuestions == InitQuestions /\ [][Next]_vars

SpecStems == InitStems /\ [][Next]_vars

SpecBody == InitBody /\ [][Next]_vars

SpecMeta == InitMeta /\ [][Next]_vars

SpecLex == InitLex /\ [][Next]_vars

SpecTokens == InitTokens /\ [][Next]_vars

SpecGaps == InitGaps /\ [][Next]_vars

SpecStrays == InitStrays /\ [][Next]_vars

SpecNumbers == InitNumbers /\ [][Next]_vars

(***************************************************************************)
(* The process: a sequence of requests, each with a parser of its own      *)
(***************************************************************************)
MaxRequests == 4

\* the markup the requests of the process carry: plain, with a question
\* block, a cloze document, and one without Spanish text
ServerDocuments ==
    {"Hola casa.",
     "::tarea:2::\n::title:Dos::\nHola casa.\n---\n::question::\n1. Que\n[A] si ::answer:A::\n::question::",
     "::tarea:4::\nEl [[gap1|a|b]]answer:a[[/gap]] dia",
     "::zh::solo::zh::"}

InitServer == InitWith(ServerDocuments, {<<>>}, {DefaultLexicon}, {TRUE}, {FALSE})

\* no request is in hand: the last one was answered
Idle ==
    \/ pc \in {"rendered", "failed", "rejected", "created", "updated"}
    \/ pc = "parsed" /\ Len(result.annotations) = 0

\* parser = SieleMarkupParser(db_session=...) followed by parser.parse(markup):
\* the maps of the new parser, the result, and the queries made
ParsedAfresh(markup) ==
    Let(init_word_mapping(NoneMap, NoneMap, db_session, db_fails, words), LAMBDA init :
        [mapping     |-> init.mapping,
         fallback    |-> init.fallback,
         parsed_data |-> parse(markup, init.mapping.map, init.fallback.map, tags),
         queries     |-> Queries(NoneMap, db_session)])

\* the request in hand after the parse of a create or update request
Answered(markup, fresh, state) ==
    /\ raw' = markup
    /\ word_mapping' = fresh.mapping
    /\ word_fallback' = fresh.fallback
    /\ result' = fresh.parsed_data
    /\ loads' = loads + fresh.queries
    /\ pc' = state
    /\ html' = <<>>

\* the except clause of a create or update request: parse raised, HTTP 500
Failed(markup) ==
    /\ raw' = markup
    /\ word_mapping' = NoneMap
    /\ word_fallback' = NoneMap
    /\ result' = EmptyResult
    /\ pc' = "failed"
    /\ html' = <<>>
    /\ UNCHANGED <<loads, passage, question_doc>>

\* a preview request arrives: a parser is constructed for it
Preview ==
    /\ Idle
    /\ requests < MaxRequests
    /\ requests' = requests + 1
    /\ raw' \in ServerDocuments
    /\ pc' = "ready"
    /\ word_mapping' = NoneMap
    /\ word_fallback' = NoneMap
    /\ result' = EmptyResult
    /\ html' = <<>>
    /\ UNCHANGED <<tags, words, db_session, db_fails, loads, passage, question_doc, thread_vars>>

\* SieleReadingPassage(...) of the create request
PassageOf(parsed_data, mongo_questions_id) ==
    [exists             |-> TRUE,
     tarea_number       |-> parsed_data.tarea_number,
     title              |-> parsed_data.title,
     raw_markup_text    |-> parsed_data.raw_markup_text,
     plain_text_es      |-> parsed_data.plain_text_es,
     lemmas             |-> parsed_data.lemmas,
     pos_distribution   |-> parsed_data.pos_distribution,
     paragraphs         |-> parsed_data.paragraphs,
     annotations        |-> parsed_data.annotations,
     mongo_questions_id |-> mongo_questions_id]

\* mongo_doc of insert_one
QuestionDocOf(parsed_data) ==
    [exists       |-> TRUE,
     tarea_number |-> parsed_data.tarea_number,
     tarea_type   |-> parsed_data.question_type,
     questions    |-> parsed_data.questions]

\* steps 4 and 5 of the create request
Created(parsed_data) ==
    /\ passage' = PassageOf(parsed_data, Len(parsed_data.questions) > 0)
    /\ question_doc' = IF Len(parsed_data.questions) > 0
                       THEN QuestionDocOf(parsed_data)
                       ELSE question_doc

\* create_passage_from_markup after the parse
CreateWith(markup, fresh) ==
    IF fresh.parsed_data.plain_text_es = ""
    THEN Answered(markup, fresh, "rejected") /\ UNCHANGED <<passage, question_doc>>
    ELSE Answered(markup, fresh, "created") /\ Created(fresh.parsed_data)

\* POST /passages: the whole request
CreatePassage ==
    /\ Idle
    /\ requests < MaxRequests
    /\ ~passage.exists
    /\ requests' = requests + 1
    /\ \E markup \in ServerDocuments :
          IF ParseRaises(markup) THEN Failed(markup) ELSE CreateWith(markup, ParsedAfresh(markup))
    /\ UNCHANGED <<tags, words, db_session, db_fails, thread_vars>>

\* the assignments to the passage row of the update request
PassageUpdated(row, parsed_data, inserted) ==
    [row EXCEPT !.title = parsed_data.title,
                !.raw_markup_text = parsed_data.raw_markup_text,
                !.plain_text_es = parsed_data.plain_text_es,
                !.lemmas = parsed_data.lemmas,
                !.pos_distribution = parsed_data.pos_distribution,
                !.paragraphs = parsed_data.paragraphs,
                !.annotations = parsed_data.annotations,
                !.mongo_questions_id = IF inserted THEN TRUE ELSE @]

\* update_one with $set on the existing document, insert_one without one
QuestionDocUpdated(doc, parsed_data) ==
    IF Len(parsed_data.questions) = 0 THEN doc
    ELSE IF doc.exists
    THEN [doc EXCEPT !.tarea_type = parsed_data.question_type, !.questions = parsed_data.questions]
    ELSE QuestionDocOf(parsed_data)

\* update_passage_from_markup after the parse
UpdateWith(markup, fresh) ==
    /\ Answered(markup, fresh, "updated")
    /\ passage' = PassageUpdated(passage, fresh.parsed_data,
                                 Len(fresh.parsed_data.questions) > 0 /\ ~question_doc.exists)
    /\ question_doc' = QuestionDocUpdated(question_doc, fresh.parsed_data)

\* PUT /passages/{passage_id}: the whole request, for the passage stored
UpdatePassage ==
    /\ Idle
    /\ requests < MaxRequests
    /\ passage.exists
    /\ requests' = requests + 1
    /\ \E markup \in ServerDocuments :
          IF ParseRaises(markup) THEN Failed(markup) ELSE UpdateWith(markup, ParsedAfresh(markup))
    /\ UNCHANGED <<tags, words, db_session, db_fails, thread_vars>>

NextServer == Parse \/ Render \/ Preview \/ CreatePassage \/ UpdatePassage

SpecServer == InitServer /\ [][NextServer]_vars

(***************************************************************************)
(* Two threads in parse on one parser: _generate_annotations statement by  *)
(* statement, from the call of _init_word_mapping to the token lookups     *)
(***************************************************************************)
InitThreads ==
    /\ raw = "Hola casa."
    /\ tags = <<>>
    /\ words \in Lexicons
    /\ db_session \in BOOLEAN
    /\ db_fails = FALSE
    /\ pc = "parsing"
    /\ word_mapping = NoneMap
    /\ word_fallback = NoneMap
    /\ result = EmptyResult
    /\ html = <<>>
    /\ loads = 0
    /\ requests = 1
    /\ passage = NoPassage
    /\ question_doc = NoQuestionDoc
    /\ tpc = [t \in Threads |-> "call"]
    /\ ti = [t \in Threads |-> 0]
    /\ seen = [t \in Threads |-> NoMaps]

\* the rows the loop of the thread runs over: none without a session
RowsOf(session, ws) == IF session THEN ws ELSE <<>>

\* if self._word_mapping is not None: return
Check(t) ==
    /\ tpc[t] = "call"
    /\ tpc' = [tpc EXCEPT ![t] = IF word_mapping.is_none THEN "query" ELSE "lookup"]
    /\ UNCHANGED <<request_vars, server_vars, ti, seen>>

\* words = self.db_session.query(Word).filter(...).all(), skipped without a session
Query(t) ==
    /\ tpc[t] = "query"
    /\ tpc' = [tpc EXCEPT ![t] = "assign_mapping"]
    /\ loads' = loads + (IF db_session THEN 1 ELSE 0)
    /\ UNCHANGED <<request_vars, requests, passage, question_doc, ti, seen>>

\* self._word_mapping = {}
AssignMapping(t) ==
    /\ tpc[t] = "assign_mapping"
    /\ tpc' = [tpc EXCEPT ![t] = "assign_fallback"]
    /\ word_mapping' = EmptyMap
    /\ UNCHANGED <<raw, tags, words, db_session, db_fails, pc, word_fallback, result, html>>
    /\ UNCHANGED <<server_vars, ti, seen>>

\* self._word_fallback = {}
AssignFallback(t) ==
    /\ tpc[t] = "assign_fallback"
    /\ tpc' = [tpc EXCEPT ![t] = "loop"]
    /\ word_fallback' = EmptyMap
    /\ ti' = [ti EXCEPT ![t] = 1]
    /\ UNCHANGED <<raw, tags, words, db_session, db_fails, pc, word_mapping, result, html>>
    /\ UNCHANGED <<server_vars, seen>>

\* for w in words: self._word_mapping[key] = w.id, or the end of the loop
SetKey(t) ==
    /\ tpc[t] = "loop"
    /\ IF ti[t] > Len(RowsOf(db_session, words))
       THEN /\ tpc' = [tpc EXCEPT ![t] = "lookup"]
            /\ UNCHANGED word_mapping
       ELSE /\ tpc' = [tpc EXCEPT ![t] = "append"]
            /\ word_mapping' =
                  [word_mapping EXCEPT !.map =
                      DictSet(@, <<Lower(words[ti[t]].lemma), Lower(words[ti[t]].pos)>>, words[ti[t]].id)]
    /\ UNCHANGED <<raw, tags, words, db_session, db_fails, pc, word_fallback, result, html>>
    /\ UNCHANGED <<server_vars, ti, seen>>

\* self._word_fallback.setdefault(w.lemma.lower(), []).append(w.id)
AppendId(t) ==
    /\ tpc[t] = "append"
    /\ tpc' = [tpc EXCEPT ![t] = "loop"]
    /\ word_fallback' =
          [word_fallback EXCEPT !.map = DictAppend(@, Lower(words[ti[t]].lemma), words[ti[t]].id)]
    /\ ti' = [ti EXCEPT ![t] = @ + 1]
    /\ UNCHANGED <<raw, tags, words, db_session, db_fails, pc, word_mapping, result, html>>
    /\ UNCHANGED <<server_vars, seen>>

\* the loop over the tokens reads self._word_mapping and self._word_fallback
Lookup(t) ==
    /\ tpc[t] = "lookup"
    /\ tpc' = [tpc EXCEPT ![t] = "done"]
    /\ seen' = [seen EXCEPT ![t] = [read |-> TRUE, mapping |-> word_mapping, fallback |-> word_fallback]]
    /\ UNCHANGED <<request_vars, server_vars, ti>>

NextThreads ==
    \E t \in Threads :
        Check(t) \/ Query(t) \/ AssignMapping(t) \/ AssignFallback(t) \/ SetKey(t) \/ AppendId(t) \/ Lookup(t)

SpecThreads == InitThreads /\ [][NextThreads]_vars

(***************************************************************************)
(* Properties                                                              *)
(***************************************************************************)
HasResult == pc \in {"parsed", "rendered"}

NParas == Len(result.paragraphs)

Para(k) == result.paragraphs[k]

\* C1: in every parse result each paragraph record has
\* end_char - start_char = len(text_es), and start_char is strictly
\* increasing along the paragraph list, paragraphs with empty text_es included
C1_ParagraphSpans ==
    HasResult =>
      /\ \A k \in 1..NParas : Para(k).end_char - Para(k).start_char = Len(Para(k).text_es)
      /\ \A k \in 1..(NParas - 1) : Para(k).start_char < Para(k + 1).start_char

\* a result of three paragraphs whose second has an empty text_es
C1_Witness ==
    /\ pc = "parsed"
    /\ NParas = 3
    /\ Para(2).text_es = ""
    /\ Para(1).text_es # ""
    /\ Para(3).text_es # ""

\* C2: in every parse result, for every paragraph,
\* plain_text_es[start_char:end_char] = text_es
C2_OffsetsInPlainText ==
    HasResult =>
      \A k \in 1..NParas :
         Slice(result.plain_text_es, Para(k).start_char, Para(k).end_char) = Para(k).text_es

\* '<span ...>' tried at position p
SpanOpenAt(s, p) ==
    IF At(s, p, "<span ") /\ Find(s, ">", p) > 0
    THEN Match(p, Find(s, ">", p) + 1, "", "", "")
    ELSE NoMatch

\* '</span>' tried at position p
SpanCloseAt(s, p) == IF At(s, p, "</span>") THEN Match(p, p + 7, "", "", "") ELSE NoMatch

RemoveOpenTags(h) == Delete(h, AllMatches(MatchTable(h, SpanOpenAt), 1))

RemoveCloseTags(h) == Delete(h, AllMatches(MatchTable(h, SpanCloseAt), 1))

\* html_es without the span wrappers: span contents and the text between spans
StripSpans(h) == RemoveCloseTags(RemoveOpenTags(h))

\* C3: for every paragraph generate_paragraph_html returns for one parse
\* result, html_es without its span wrappers is exactly the paragraph's text_es
C3_HtmlRoundTrip ==
    pc = "rendered" => \A k \in 1..Len(html) : StripSpans(html[k].html_es) = html[k].text_es

\* a text still holds a metadata tag, a question block or a gap tag
HasTag(s) ==
    \/ FirstMatch(MatchTable(s, TareaAt), 1).ok
    \/ FirstMatch(MatchTable(s, TitleAt), 1).ok
    \/ FirstMatch(MatchTable(s, QuestionBlockAt), 1).ok
    \/ FirstMatch(MatchTable(s, GapAt), 1).ok

\* C4: in every parse result no paragraph's text_es holds a metadata tag,
\* a discrete question block or a cloze gap tag, whatever the tarea number
C4_NoTagsLeft == HasResult => \A k \in 1..NParas : ~HasTag(Para(k).text_es)

NQuestions == Len(result.questions)

Options(q) == result.questions[q].options

CorrectCount(options) == Cardinality({k \in 1..Len(options) : options[k].is_correct})

\* C5: for every cloze gap and every answer marker, at most one option of
\* the gap ends with is_correct = true (the three rules, first match wins)
C5_AtMostOneCorrect ==
    HasResult => \A q \in 1..NQuestions : CorrectCount(Options(q)) <= 1

\* the letters of the answer markers of the document
MarkerLetters == {Ch(raw, p + 9) : p \in {p \in 1..Len(raw) : AnswerAt(raw, p).ok}}

Labels(options) == {options[k].label : k \in 1..Len(options)}

\* C6: for every discrete question: no option is correct when no marker
\* letter equals the label of a recorded option, never more than one option
\* is correct, and exactly one is when the question's one marker letter
\* equals a recorded label (repeated labels and several markers included)
C6_ExactlyOneCorrect ==
    HasResult =>
      \A q \in 1..NQuestions :
         /\ MarkerLetters \cap Labels(Options(q)) = {} => CorrectCount(Options(q)) = 0
         /\ CorrectCount(Options(q)) <= 1
         /\ (Cardinality(MarkerLetters) = 1 /\ MarkerLetters \subseteq Labels(Options(q)))
               => CorrectCount(Options(q)) = 1

\* the rows of the table whose lowercased lemma is the given one, by position
LemmaRows(lemma) == {k \in 1..Len(words) : Lower(words[k].lemma) = lemma}

\* the rows of the table with the given lowercased lemma and part of speech
ExactRows(lemma, pos) == {k \in LemmaRows(lemma) : Lower(words[k].pos) = pos}

\* the id the three tiers give a token, read from the table itself
TierId(word, lemma, pos) ==
    IF ExactRows(lemma, pos) # {} THEN words[GreatestOr(ExactRows(lemma, pos), 0)].id
    ELSE IF LemmaRows(lemma) # {} THEN words[LeastOr(LemmaRows(lemma), 0)].id
    ELSE IF LemmaRows(Lower(word)) # {} THEN words[LeastOr(LemmaRows(Lower(word)), 0)].id
    ELSE NoWordId

Ann(a) == result.annotations[a]

\* C7: for every word token the annotation's word_id is the id stored under
\* the exact (lemma, pos) key, else the first id inserted for the lemma, else
\* the first id inserted for the lowercased surface form, else None; with
\* entries (hola, intj, 1) and (casa, noun, 2), hola/INTJ gets 1 and casa
\* with another pos gets 2
C7_ThreeTierLookup ==
    (HasResult /\ db_session /\ ~db_fails) =>
      \A a \in 1..Len(result.annotations) :
         /\ Ann(a).word_id = TierId(Ann(a).word, Ann(a).lemma, Ann(a).pos)
         /\ words = DefaultLexicon =>
              /\ (Ann(a).lemma = "hola" /\ Ann(a).pos = "intj") => Ann(a).word_id = 1
              /\ (Ann(a).lemma = "casa" /\ Ann(a).pos # "noun") => Ann(a).word_id = 2

\* one token resolved by its lemma alone and another by its surface form alone,
\* to different ids, where both the lemma and the surface form of it are known
C7_Witness ==
    /\ pc = "parsed"
    /\ db_session /\ ~db_fails
    /\ Len(result.annotations) = 2
    /\ ExactRows(Ann(1).lemma, Ann(1).pos) = {}
    /\ LemmaRows(Ann(1).lemma) # {}
    /\ LemmaRows(Lower(Ann(1).word)) # {}
    /\ Ann(1).word_id # words[LeastOr(LemmaRows(Lower(Ann(1).word)), 0)].id
    /\ LemmaRows(Ann(2).lemma) = {}
    /\ Ann(2).word_id # NoWordId

ExpectedType(tarea_number) ==
    IF tarea_number = 4 THEN "cloze_fragments"
    ELSE IF tarea_number = 5 THEN "cloze_mc"
    ELSE "single_choice"

\* C9: question_type is cloze_fragments for tarea 4, cloze_mc for tarea 5
\* and single_choice for every other number, 1 being the number of a document
\* without a tarea tag; every question carries the document's question_type
C9_Dispatch ==
    HasResult =>
      /\ result.question_type = ExpectedType(result.tarea_number)
      /\ Find(raw, "::tarea:", 1) = 0 => result.tarea_number = 1
      /\ At(raw, 1, "::tarea:2::") => result.tarea_number = 2
      /\ At(raw, 1, "::tarea:4::") => result.question_type = "cloze_fragments"
      /\ At(raw, 1, "::tarea:5::") => result.question_type = "cloze_mc"
      /\ \A q \in 1..NQuestions : result.questions[q].question_type = result.question_type

\* a tarea 5 document with two gaps, and so two questions
C9_Witness ==
    /\ pc = "parsed"
    /\ result.tarea_number = 5
    /\ NQuestions = 2

\* the number of pipes of the document: in a document with one gap tag, the
\* number of pipe-separated segments of the tag
Pipes == Cardinality({p \in 1..Len(raw) : Ch(raw, p) = "|"})

\* the text of the gap tag between its first pipe and the closing brackets
SegmentsText == SubSeq(raw, Find(raw, "|", 1) + 1, Find(raw, "]]", 1) - 1)

\* C10: a gap has as many options as its tag has pipe-separated segments, in
\* the segments' order, labelled A, B, C, ... if and only if they are at most
\* 5, and 1, 2, ... otherwise
C10_ClozeOptions ==
    HasResult =>
      /\ NQuestions = 1
      /\ Len(Options(1)) = Pipes
      /\ Join([k \in 1..Len(Options(1)) |-> Options(1)[k].content], "|") = SegmentsText
      /\ \A k \in 1..Len(Options(1)) :
            Options(1)[k].label = IF Pipes <= 5 THEN UpperLetters[k] ELSE ToStr(k)

\* a gap of six options, the last labelled 6
C10_Witness ==
    /\ pc = "parsed"
    /\ NQuestions = 1
    /\ Len(Options(1)) = 6
    /\ Options(1)[6].label = "6"
    /\ Options(1)[1].content # Options(1)[6].content

\* the answer marker of the document's one gap tag, as written
MarkerText == SubSeq(raw, Find(raw, "]]answer:", 1) + 9, Find(raw, "[[/gap]]", 1) - 1)

\* the pipe-separated segments of the document's one gap tag
Segments == SplitOn(SegmentsText, "|")

\* the marker, trimmed, is the label of no option (compared in upper case),
\* the 1-based index of none and the content of none
MatchesNoOption ==
    /\ \A k \in 1..Pipes : Upper(Strip(MarkerText)) # (IF Pipes <= 5 THEN UpperLetters[k] ELSE ToStr(k))
    /\ \A k \in 1..Pipes : Strip(MarkerText) # ToStr(k)
    /\ \A k \in 1..Len(Segments) : Strip(MarkerText) # Strip(Segments[k])

\* C11: a cloze answer marker that matches no option under any of the three
\* rules leaves every option of the gap with is_correct = false; the gap is
\* still emitted as a question and parse completes
C11_UnmatchedMarker ==
    (pc # "ready" /\ MatchesNoOption) =>
      /\ HasResult
      /\ NQuestions = 1
      /\ Len(Options(1)) = Pipes
      /\ \A k \in 1..Len(Options(1)) : ~Options(1)[k].is_correct

\* the marker b over the single option B: another letter than the label A,
\* not the index 1, and not the content but for its case
C11_Witness ==
    /\ pc = "parsed"
    /\ MatchesNoOption
    /\ MarkerText = "b"
    /\ NQuestions = 1
    /\ Len(Options(1)) = 1
    /\ Options(1)[1].content = "B"
    /\ ~Options(1)[1].is_correct

\* the lines of the document's one question block, as written
BlockLines ==
    SplitOn(SubSeq(raw, Find(raw, "::question::\n", 1) + 13,
                        Find(raw, "\n::question::", Find(raw, "::question::\n", 1) + 1) - 1), "\n")

\* the line opens with '<integer>. '
StartLine(l) == Len(l) >= 3 /\ IsDigit(Ch(l, 1)) /\ At(l, SkipDigits(l, 1), ". ")

\* the line is '[<LETTER>] <content>'
IsOptionLine(l) ==
    Len(l) >= 5 /\ Ch(l, 1) = "[" /\ Ch(l, 2) \in UpperSet /\ At(l, 3, "] ") /\ Strip(From(l, 5)) # ""

\* the elements of a set of integers in increasing order
Ascending(S) == [k \in 1..Cardinality(S) |-> CHOOSE x \in S : Cardinality({y \in S : y < x}) = k - 1]

\* the lines among ls that open a question
StartsIn(ls) == {i \in 1..Len(ls) : StartLine(ls[i])}

\* the lines after the stem line i of a question, up to the next question
BodyIn(ls, starts, i) == (i + 1)..(LeastOr({j \in starts : j > i}, Len(ls) + 1) - 1)

\* the lines of the question opened at line i selected by Recognized, in order
LinesIn(ls, starts, i, Recognized(_)) == Ascending({j \in BodyIn(ls, starts, i) : Recognized(ls[j])})

\* the questions, by their opening line, with at least one such line, in order
KeptIn(ls, starts, Recognized(_)) ==
    Ascending({i \in starts : \E j \in BodyIn(ls, starts, i) : Recognized(ls[j])})

\* the same of the document's question block
StartIdx == StartsIn(BlockLines)

BodyIdx(i) == BodyIn(BlockLines, StartIdx, i)

\* the number and the stem an opening line carries
NumberOf(l) == ToInt(SubSeq(l, 1, SkipDigits(l, 1) - 1))

StemOf(l) == Strip(From(l, SkipDigits(l, 1) + 1))

\* the emitted questions are those opened at the lines kept, with their
\* numbers and stems
EmittedAre(ls, kept) ==
    /\ NQuestions = Len(kept)
    /\ \A q \in 1..NQuestions :
          /\ result.questions[q].question_id = NumberOf(ls[kept[q]])
          /\ result.questions[q].stem = StemOf(ls[kept[q]])

\* C12: a numbered question of a block with zero recognized [LETTER] option
\* lines is dropped: every discrete question of a parse result has at least
\* one option, and the questions of the block that do have option lines are
\* emitted, in the block's order
C12_NoOptionsDropped ==
    HasResult =>
      /\ \A q \in 1..NQuestions : Len(Options(q)) >= 1
      /\ Let(BlockLines, LAMBDA ls : EmittedAre(ls, KeptIn(ls, StartsIn(ls), IsOptionLine)))

\* a block of two questions, the first without option lines: only the second
\* is emitted
C12_Witness ==
    /\ pc = "parsed"
    /\ Cardinality(StartIdx) = 2
    /\ BodyIdx(1) = {}
    /\ NQuestions = 1
    /\ result.questions[1].question_id = 2

\* the emitted questions are as many as the lines kept, with the stems of those lines
StemsAre(ls, kept) ==
    /\ NQuestions = Len(kept)
    /\ \A q \in 1..NQuestions : result.questions[q].stem = StemOf(ls[kept[q]])

\* C13: inside a question block a new question starts only at '<integer>.'
\* at the start of a line; '<integer>. ' in the middle of a stem or option
\* line starts none: the number of emitted questions is the number of
\* line-start markers that have options, and each stem is the full first
\* line after its marker
C13_LineStartOnly ==
    HasResult => Let(BlockLines, LAMBDA ls : StemsAre(ls, KeptIn(ls, StartsIn(ls), IsOptionLine)))

\* the line holds a marker ::answer:<LETTER>::, and the letter of its first one
HasMarker(l) ==
    /\ Find(l, "::answer:", 1) > 0
    /\ Ch(l, Find(l, "::answer:", 1) + 9) \in UpperSet
    /\ At(l, Find(l, "::answer:", 1) + 10, "::")

MarkerLetter(l) == Ch(l, Find(l, "::answer:", 1) + 9)

\* the line holds a [<LETTER>] label at position p, and at some position
LabelAt(l, p) == Ch(l, p) = "[" /\ Ch(l, p + 1) \in UpperSet /\ At(l, p + 2, "] ")

HasLabel(l) == \E p \in 1..Len(l) : LabelAt(l, p)

LabelLetter(l) == Ch(l, LeastOr({p \in 1..Len(l) : LabelAt(l, p)}, 0) + 1)

\* the content of an option line without its one marker, trimmed
Unmarked(c) ==
    IF Find(c, "::answer:", 1) = 0 THEN Strip(c)
    ELSE Strip(SubSeq(c, 1, Find(c, "::answer:", 1) - 1) \o From(c, Find(c, "::answer:", 1) + 12))

\* the letter of the marker of the last line with a marker among the lines
\* body of a question, or no letter
AnswerIn(ls, body) ==
    IF \E j \in body : HasMarker(ls[j])
    THEN MarkerLetter(ls[GreatestOr({j \in body : HasMarker(ls[j])}, 0)])
    ELSE ""

AnswerOf(i) == AnswerIn(BlockLines, BodyIdx(i))

\* the option an option line l gives in a question whose answer is the letter
OptionOfLine(letter, l) ==
    [label      |-> Ch(l, 2),
     content    |-> Unmarked(From(l, 5)),
     is_correct |-> Ch(l, 2) = letter]

\* some emitted question of the given number records the line l as an option
\* without marker text, correct if and only if its label is the line's marker letter
RecordedWithAnswer(number, l) ==
    \E q \in 1..NQuestions : \E k \in 1..Len(Options(q)) :
       /\ result.questions[q].question_id = number
       /\ Options(q)[k].label = LabelLetter(l)
       /\ Find(Options(q)[k].content, "::answer:", 1) = 0
       /\ Options(q)[k].is_correct = (Options(q)[k].label = MarkerLetter(l))

AllRecorded(ls, starts) ==
    \A i \in starts : \A j \in BodyIn(ls, starts, i) :
       (HasLabel(ls[j]) /\ HasMarker(ls[j])) => RecordedWithAnswer(NumberOf(ls[i]), ls[j])

\* C14 as stated: for a line of a discrete question that holds a [LETTER]
\* label and the marker ::answer:<LETTER>:: at any position (before the
\* label, inside the content or at the end), the option is recorded, its
\* stored content holds no marker text and the marker's letter is the
\* question's correct answer
C14_MarkerAnywhere ==
    HasResult => Let(BlockLines, LAMBDA ls : AllRecorded(ls, StartsIn(ls)))

\* the options of the q-th emitted question are what the option lines give
OptionsAre(q, ls, lines, letter) ==
    /\ Len(Options(q)) = Len(lines)
    /\ \A k \in 1..Len(Options(q)) : Options(q)[k] = OptionOfLine(letter, ls[lines[k]])

OptionsFollowLines(ls, starts, kept) ==
    /\ NQuestions = Len(kept)
    /\ \A q \in 1..NQuestions :
          OptionsAre(q, ls, LinesIn(ls, starts, kept[q], IsOptionLine),
                     AnswerIn(ls, BodyIn(ls, starts, kept[q])))

\* C14 as the code behaves: the options of a question are its lines that
\* start with the [LETTER] label, in order, each stored without its marker
\* and trimmed; a line whose marker precedes the label gives no option; the
\* correct answer is the letter of the marker of the last line of the
\* question that holds one, whether that line is an option line or not
C14_MarkerInOptionLine ==
    HasResult =>
      Let(BlockLines, LAMBDA ls :
      Let(StartsIn(ls), LAMBDA starts :
          OptionsFollowLines(ls, starts, KeptIn(ls, starts, IsOptionLine))))

\* a question with a line whose marker precedes its label: that line gives no
\* option, and the only recorded option, labelled B, is not the correct one
C14_Witness ==
    /\ pc = "parsed"
    /\ \E j \in BodyIdx(1) : HasMarker(BlockLines[j]) /\ HasLabel(BlockLines[j]) /\ ~IsOptionLine(BlockLines[j])
    /\ NQuestions = 1
    /\ Len(Options(1)) = 1
    /\ Options(1)[1].label = "B"
    /\ AnswerOf(1) = "A"

\* the line consists solely of three or more hyphens
IsSeparatorLine(l) == Len(l) >= 3 /\ \A i \in 1..Len(l) : Ch(l, i) = "-"

HasSeparatorLine(s) == \E i \in 1..Len(SplitOn(s, "\n")) : IsSeparatorLine(SplitOn(s, "\n")[i])

\* the lines of the document, as written
RawLines == SplitOn(raw, "\n")

\* the separator lines of the document with a line before and a line after
\* the document added, in order
Fences ==
    Ascending({0, Len(RawLines) + 1} \cup {i \in 1..Len(RawLines) : IsSeparatorLine(RawLines[i])})

\* the text between the g-th fence and the next
Between(g) == Join(SubSeq(RawLines, Fences[g] + 1, Fences[g + 1] - 1), "\n")

\* the fragments between separator lines that are not blank, in order
Fragments == Ascending({g \in 1..(Len(Fences) - 1) : Strip(Between(g)) # ""})

\* the text before the first ::zh:: or ::grammar:: delimiter, or the whole text
BeforeSubTags(s) ==
    SubSeq(s, 1, LeastOr({p \in 1..Len(s) : At(s, p, "::zh::") \/ At(s, p, "::grammar::")},
                         Len(s) + 1) - 1)

\* the text with its gap placeholder, if it holds one, shown as [___]
ShowGap(s) ==
    IF Find(s, "___GAP1___", 1) = 0 THEN s
    ELSE SubSeq(s, 1, Find(s, "___GAP1___", 1) - 1) \o "[___]" \o From(s, Find(s, "___GAP1___", 1) + 10)

\* C15: every line consisting solely of three or more hyphens separates
\* paragraphs: no paragraph's text_es holds such a line (adjacent separator
\* lines and a separator on the first or last line included), blank fragments
\* yield no paragraph, and the paragraphs follow the source order
C15_HyphenLinesSeparate ==
    HasResult =>
      /\ \A k \in 1..NParas : ~HasSeparatorLine(Para(k).text_es)
      /\ NParas = Len(Fragments)
      /\ \A k \in 1..NParas :
            Para(k).text_es = ShowGap(Strip(BeforeSubTags(Between(Fragments[k]))))

\* the raw fragments parse cuts the document into, and the block, trimmed,
\* the k-th paragraph of the result was decoded from
RawParagraphs ==
    SplitParagraphs(remove_metadata_tags(ExtractByTarea(raw, extract_tarea_number(raw)).text))

FragmentIndex(k) == ToInt(From(Para(k).paragraph_id, 2))

BlockIn(raw_paragraphs, k) == Strip(raw_paragraphs[FragmentIndex(k)])

Block(k) == BlockIn(RawParagraphs, k)

\* the number of occurrences of a delimiter in a text
Count(s, lit) == Cardinality({p \in 1..Len(s) : At(s, p, lit)})

HasDelimiter(s) == Count(s, "::zh::") + Count(s, "::grammar::") > 0

\* C16 as stated: for every paragraph block, text_es is the block's text
\* before the first ::zh:: or ::grammar:: (trimmed), or the whole trimmed
\* block if neither occurs, whether or not the sub-tag is terminated; text_es
\* never holds a ::zh:: or ::grammar:: delimiter
C16_TextEsIsPrefix ==
    HasResult =>
      Let(RawParagraphs, LAMBDA raw_paragraphs :
          \A k \in 1..NParas :
             /\ Para(k).text_es = Strip(BeforeSubTags(BlockIn(raw_paragraphs, k)))
             /\ ~HasDelimiter(Para(k).text_es))

\* C16 as the code behaves: text_es is that trimmed text with each gap
\* placeholder in it shown as [___]; it never holds a delimiter
C16_TextEsIsPrefixWithGaps ==
    HasResult =>
      Let(RawParagraphs, LAMBDA raw_paragraphs :
          \A k \in 1..NParas :
             /\ Para(k).text_es = ShowGap(Strip(BeforeSubTags(BlockIn(raw_paragraphs, k))))
             /\ ~HasDelimiter(Para(k).text_es))

\* a block with a gap placeholder before an unterminated ::zh::, after a
\* paragraph cut at an unterminated ::grammar::
C16_Witness ==
    /\ pc = "parsed"
    /\ NParas = 2
    /\ Count(Block(1), "::grammar::") = 1
    /\ Para(1).text_es = "Tres"
    /\ Count(Block(2), "::zh::") = 1
    /\ Find(Block(2), "___GAP1___", 1) > 0
    /\ Para(2).text_es = "El [___] dia"

\* the positions of the first delimiter of a kind in a text and of the next
\* one after it, 0 if there is none
Opening(s, lit) == Find(s, lit, 1)

Closing(s, lit) == IF Opening(s, lit) = 0 THEN 0 ELSE Find(s, lit, Opening(s, lit) + Len(lit))

\* the trimmed text between the first pair of delimiters, if there is a pair
Enclosed(s, lit) == Strip(SubSeq(s, Opening(s, lit) + Len(lit), Closing(s, lit) - 1))

\* the translation a block carries
Translation(block) == IF Closing(block, "::zh::") > 0 THEN Enclosed(block, "::zh::") ELSE ""

\* C17: text_zh of every paragraph is a string, never None: the trimmed
\* content between the first matching pair of ::zh:: delimiters, and the empty
\* string when the paragraph has no ::zh:: or only an opening one; parse
\* completes in either case
C17_TextZh ==
    pc # "ready" =>
      /\ HasResult
      /\ Let(RawParagraphs, LAMBDA raw_paragraphs :
             \A k \in 1..NParas : Para(k).text_zh = Translation(BlockIn(raw_paragraphs, k)))

\* a paragraph with a closed translation, then one with only an opening ::zh::
C17_Witness ==
    /\ pc = "parsed"
    /\ NParas = 2
    /\ Closing(Block(1), "::zh::") > 0
    /\ Para(1).text_zh = "er"
    /\ Opening(Block(2), "::zh::") > 0
    /\ Closing(Block(2), "::zh::") = 0
    /\ Para(2).text_zh = ""

\* the block opens a ::grammar:: tag and never closes it
Dangling(block) == Opening(block, "::grammar::") > 0 /\ Closing(block, "::grammar::") = 0

Unterminated(k) == Dangling(Block(k))

\* the block without the delimiter, and without the whole tag
DelimiterDropped(block) ==
    SubSeq(block, 1, Opening(block, "::grammar::") - 1) \o From(block, Opening(block, "::grammar::") + 11)

TagDropped(block) == SubSeq(block, 1, Opening(block, "::grammar::") - 1)

\* the document with the block of the k-th paragraph replaced
DocumentWith(raw_paragraphs, k, block) ==
    Join([i \in 1..Len(raw_paragraphs) |-> IF i = FragmentIndex(k) THEN block ELSE raw_paragraphs[i]],
         "\n---\n")

\* the paragraphs parse returns for another document, under the same lexicon
ParagraphsOf(document) == parse(document, word_mapping.map, word_fallback.map, tags).paragraphs

\* the paragraphs after the k-th have the same text_es and grammar_notes as those of ps
SameLater(k, ps) ==
    /\ Len(ps) = NParas
    /\ \A j \in (k + 1)..NParas :
          /\ Para(j).text_es = ps[j].text_es
          /\ Para(j).grammar_notes = ps[j].grammar_notes

\* an unterminated ::grammar:: in the block of the k-th paragraph gives no
\* note and changes nothing in the later paragraphs
Contained(raw_paragraphs, k, block) ==
    Dangling(block) =>
       /\ Para(k).grammar_notes = <<>>
       /\ SameLater(k, ParagraphsOf(DocumentWith(raw_paragraphs, k, DelimiterDropped(block))))
       /\ SameLater(k, ParagraphsOf(DocumentWith(raw_paragraphs, k, TagDropped(block))))

\* C18: a paragraph with an opening ::grammar:: and no closing delimiter has
\* an empty grammar_notes, and text_es and grammar_notes of every later
\* paragraph are those of the document without the unterminated tag: the tag
\* never pairs with a delimiter of a later paragraph
C18_UnterminatedGrammar ==
    HasResult =>
      Let(RawParagraphs, LAMBDA raw_paragraphs :
          \A k \in 1..NParas : Contained(raw_paragraphs, k, BlockIn(raw_paragraphs, k)))

\* an unterminated ::grammar:: in the first paragraph and a closed grammar
\* block with a note in the second
C18_Witness ==
    /\ pc = "parsed"
    /\ NParas = 2
    /\ Unterminated(1)
    /\ Para(1).grammar_notes = <<>>
    /\ Closing(Block(2), "::grammar::") > 0
    /\ Len(Para(2).grammar_notes) = 1
    /\ Para(2).text_es = "Ver"

\* C19: idempotence: for every parse result whose plain_text_es holds no
\* grammar or question tag, parsing plain_text_es again yields exactly one
\* paragraph, whose text_es is the original paragraphs' text_es joined by blank
\* lines, that is plain_text_es, for any number of original paragraphs,
\* paragraphs with an empty text_es included
C19_Idempotence ==
    (/\ HasResult
     /\ Find(result.plain_text_es, "::grammar::", 1) = 0
     /\ Find(result.plain_text_es, "::question::", 1) = 0) =>
      /\ Len(ParagraphsOf(result.plain_text_es)) = 1
      /\ ParagraphsOf(result.plain_text_es)[1].text_es = result.plain_text_es

\* the number of the first of the well-formed tarea tags of the document, 1
\* if it has none
FirstTarea ==
    IF Find(raw, "::tarea:3::", 1) = 0 /\ Find(raw, "::tarea:12::", 1) = 0 THEN 1
    ELSE IF Find(raw, "::tarea:12::", 1) = 0 THEN 3
    ELSE IF Find(raw, "::tarea:3::", 1) = 0 THEN 12
    ELSE IF Find(raw, "::tarea:3::", 1) < Find(raw, "::tarea:12::", 1) THEN 3
    ELSE 12

\* where the inner text of the document's first title tag starts, and the
\* closing '::' after at least one character of it, 0 if there is none
TitleStart == Find(raw, "::title:", 1) + 8

TitleClose == IF Find(raw, "::title:", 1) = 0 THEN 0 ELSE Find(raw, "::", TitleStart + 1)

\* the document has a title tag: an inner text on one line, closed by '::'
HasTitleTag == TitleClose > 0 /\ Find(SubSeq(raw, TitleStart, TitleClose - 1), "\n", 1) = 0

RECURSIVE WithoutSpans(_, _, _)
WithoutSpans(s, open, close) ==
    Let(Find(s, open, 1), LAMBDA o :
    Let(IF o = 0 THEN 0 ELSE Find(s, close, o + Len(open)), LAMBDA c :
        IF c = 0
        THEN s
        ELSE SubSeq(s, 1, o - 1)
               \o WithoutSpans(SubSeq(s, c + Len(close), Len(s)), open, close)))

IsClozeDocument == result.tarea_number \in {4, 5}

\* what step 2 of parse handed on for the document of the state
Extracted == ExtractByTarea(raw, result.tarea_number)

\* C21: when the markup holds no question construct of the selected grammar
\* (no ::question:: block in a discrete document, no gap tag in a tarea 4/5
\* document) question extraction returns no question and the text it was
\* given; in general the characters outside the matched constructs are left
\* unchanged and in order (a matched block leaves nothing, a matched gap tag
\* leaves its placeholder)
C21_ExtractionFrame ==
    HasResult =>
        Let(Extracted, LAMBDA e :
            /\ (IsClozeDocument /\ Find(raw, "[[gap", 1) = 0)
                   => (e.text = raw /\ e.questions = <<>> /\ result.questions = <<>>)
            /\ (~IsClozeDocument /\ Find(raw, "::question::", 1) = 0)
                   => (e.text = raw /\ e.questions = <<>> /\ result.questions = <<>>)
            /\ IF IsClozeDocument
               THEN WithoutSpans(e.text, "___GAP", "___") = WithoutSpans(raw, "[[gap", "[[/gap]]")
               ELSE e.text = WithoutSpans(raw, "::question::", "::question::"))

\* a cloze document that holds a question block and no gap tag, parsed with
\* no question, and a discrete document whose block was taken out
C21_Witness ==
    /\ pc = "parsed"
    /\ \/ /\ raw = "::tarea:4::\nHola casa.\n---\n::question::\n1. Que\n[A] si ::answer:A::\n::question::"
          /\ Extracted.text = raw
          /\ result.questions = <<>>
       \/ /\ raw = "Hola casa.\n---\n::question::\n1. Que\n[A] si ::answer:A::\n::question::"
          /\ Extracted.text = "Hola casa.\n---\n"
          /\ Len(result.questions) = 1

\* C27: paragraph identities are consecutive and 1-based: in every parse
\* result the k-th paragraph of the list has paragraph_id "p<k>", with no
\* gaps, also when blank fragments between separators are discarded
C27_ConsecutiveIds ==
    HasResult => \A k \in 1..NParas : Para(k).paragraph_id = "p" \o ToStr(k)

\* the paragraphs whose [start_char, end_char) range holds the annotation's start
Owners(ann) ==
    {k \in 1..NParas : Para(k).start_char <= ann.start_char /\ ann.start_char < Para(k).end_char}

\* the rebased offsets lie in the paragraph's text and delimit the surface form
RebasedInText(para, ann) ==
    /\ 0 <= ann.start_char
    /\ ann.start_char < ann.end_char
    /\ ann.end_char <= Len(para.text_es)
    /\ Slice(para.text_es, ann.start_char, ann.end_char) = ann.word

\* C26: generate_paragraph_html attaches every annotation of a parse result
\* to exactly one paragraph (each annotation falls in the [start_char, end_char)
\* range of exactly one paragraph), and after rebasing its offsets satisfy
\* 0 <= start < end <= len(text_es) with text_es[start:end] equal to the
\* token's surface form
C26_AttachedOnce ==
    pc = "rendered" =>
        /\ \A i \in 1..Len(result.annotations) : Cardinality(Owners(result.annotations[i])) = 1
        /\ \A k \in 1..NParas :
              Let(Adjusted(Para(k), ParaAnnotations(Para(k), result.annotations)), LAMBDA anns :
                  \A i \in 1..Len(anns) : RebasedInText(Para(k), anns[i]))

\* the sum of the values of a tally over the keys in S
RECURSIVE SumOver(_, _)
SumOver(f, S) ==
    IF S = {} THEN 0 ELSE Let(CHOOSE x \in S : TRUE, LAMBDA x : f[x] + SumOver(f, S \ {x}))

\* the analyzer tokens that are neither punctuation nor white space
WordTokens(doc) == {k \in 1..Len(doc) : ~doc[k].is_punct /\ ~doc[k].is_space}

\* C29: in every parse result the three token-derived outputs cover the same
\* token stream: len(annotations) = len(lemmas) = the sum of the counts in
\* pos_distribution = the number of analyzer tokens that are neither
\* punctuation nor white space, and the k-th annotation and the k-th lemma
\* entry have the same index, start_char and end_char
C29_SameTokenStream ==
    HasResult =>
        Let(Cardinality(WordTokens(nlp(result.plain_text_es, tags))), LAMBDA n :
            /\ Len(result.annotations) = n
            /\ Len(result.lemmas) = n
            /\ SumOver(result.pos_distribution, DOMAIN result.pos_distribution) = n
            /\ \A k \in 1..n :
                  /\ result.annotations[k].index = result.lemmas[k].index
                  /\ result.annotations[k].start_char = result.lemmas[k].start_char
                  /\ result.annotations[k].end_char = result.lemmas[k].end_char)

\* a result over a text with punctuation between two words that the tagger
\* gave different parts of speech
C29_Witness ==
    /\ pc = "parsed"
    /\ raw = "Hola, casa."
    /\ Len(result.annotations) = 2
    /\ Cardinality(DOMAIN result.pos_distribution) = 2
    /\ result.annotations[2].index = 2
    /\ result.lemmas[2].start_char = 6

\* the text after the header line of a document
Body == From(raw, Find(raw, "\n", 1) + 1)

\* the well-formed gap tags of s, in order: each answer part with the opening
\* before it and the closing after it, as [start, stop, number]
RECURSIVE GapTags(_, _)
GapTags(s, i) ==
    Let(Find(s, "]]answer:", i), LAMBDA a :
        IF a = 0 THEN <<>>
        ELSE Let(GreatestOr({p \in 1..a : At(s, p, "[[gap")}, 0), LAMBDA o :
             Let(Find(s, "[[/gap]]", a), LAMBDA c :
                 <<[start  |-> o,
                    stop   |-> c + 8,
                    number |-> ToInt(SubSeq(s, o + 5, Find(s, "|", o) - 1))]>>
                   \o GapTags(s, c + 8))))

\* s with each of the tags gs shown as [___]
GapsShown(s, gs) ==
    Concat([k \in 1..(Len(gs) + 1) |->
              (IF k = 1 THEN "" ELSE "[___]")
                \o SubSeq(s,
                          IF k = 1 THEN 1 ELSE gs[k - 1].stop,
                          IF k > Len(gs) THEN Len(s) ELSE gs[k].start - 1)])

\* C25: in a tarea 4 or 5 document every well-formed gap tag yields exactly
\* one cloze question, in order of occurrence and with question_id equal to
\* the gap number, and is replaced in the text by exactly one placeholder: the
\* number of cloze questions equals the number of tags replaced, and the
\* paragraphs' text_es show [___] where the tags stood
C25_OneQuestionPerGap ==
    (HasResult /\ IsClozeDocument) =>
        Let(GapTags(Body, 1), LAMBDA gs :
            /\ Len(result.questions) = Len(gs)
            /\ \A k \in 1..Len(gs) : result.questions[k].question_id = gs[k].number
            /\ Count(Extracted.text, "___GAP") = Len(gs)
            /\ Count(result.plain_text_es, "[___]") = Len(gs)
            /\ NParas = Count(Body, "\n---\n") + 1
            /\ Join([k \in 1..NParas |-> Para(k).text_es], "\n---\n") = GapsShown(Body, gs))

\* a paragraph with two tags and a tag that has no answer part: two
\* questions numbered 12 and 1, two placeholders
C25_Witness ==
    /\ pc = "parsed"
    /\ raw = "::tarea:5::\ny [[gap12|a|b]]answer:B[[/gap]]. El [[gap1|a|b]]answer:a[[/gap]] dia [[gap3|x]] roto"
    /\ Len(result.questions) = 2
    /\ result.questions[1].question_id = 12
    /\ result.questions[2].question_id = 1
    /\ NParas = 1
    /\ Para(1).text_es = "y [___]. El [___] dia [[gap3|x]] roto"

\* the positions of the ::question:: delimiters of the document, in order
Delimiters == Ascending({p \in 1..Len(raw) : At(raw, p, "::question::")})

\* the text between the i-th delimiter ds[i] and the next
Delimited(ds, i) == SubSeq(raw, ds[i] + 12, ds[i + 1] - 1)

\* an opening delimiter that is never closed, followed later by a block with
\* questions in it
StrayThenBlock(ds) == Len(ds) = 3 /\ parse_question_block(Strip(Delimited(ds, 2))) # <<>>

\* C28: when the markup holds an opening ::question:: with no closing
\* delimiter followed later by a well-formed ::question::...::question::
\* block, discrete extraction consumes only the well-formed block: the text
\* between the stray delimiter and the block (paragraph separators and other
\* paragraphs' source text included) stays in the residual text, and the
\* questions of the well-formed block are extracted
C28_OnlyBlockConsumed ==
    HasResult =>
        Let(Delimiters, LAMBDA ds :
            StrayThenBlock(ds) =>
                /\ Extracted.text = SubSeq(raw, 1, ds[2] - 1) \o From(raw, ds[3] + 12)
                /\ result.questions = parse_question_block(Strip(Delimited(ds, 2))))

\* C24: with the analyzer and the lexicon available parse returns a document
\* and never raises, whatever the input string: a missing title, translation
\* or answer marker and an unterminated or unmatched ::zh::, ::grammar::,
\* ::question:: or gap delimiter all yield a (possibly partial) document
C24_NeverRaises ==
    pc # "ready" => (pc \in {"parsed", "rendered"} /\ result.raw_markup_text = raw)

(***************************************************************************)
(* The process and its store                                               *)
(***************************************************************************)
\* C22: the lexicon cache is process-wide and built once: across any
\* sequence of parse requests served in one process (preview, create, update)
\* the lexicon entries are loaded from the lexicon service at most once, on
\* first use, and the (lemma, pos) map and the lemma fallback map never
\* change after that first build
C22_BuiltOnce ==
    /\ [](loads <= 1)
    /\ [][word_mapping.is_none
            \/ (word_mapping' = word_mapping /\ word_fallback' = word_fallback)]_vars

\* the stored passage holds what parse derived from the markup
StoredFields(row, parsed_data) ==
    /\ row.tarea_number = parsed_data.tarea_number
    /\ row.title = parsed_data.title
    /\ row.raw_markup_text = parsed_data.raw_markup_text
    /\ row.plain_text_es = parsed_data.plain_text_es
    /\ row.lemmas = parsed_data.lemmas
    /\ row.pos_distribution = parsed_data.pos_distribution
    /\ row.paragraphs = parsed_data.paragraphs
    /\ row.annotations = parsed_data.annotations

\* the stored question document holds exactly the questions, none when there are none
StoredQuestions(doc, questions) ==
    IF Len(questions) = 0 THEN ~doc.exists ELSE doc.exists /\ doc.questions = questions

\* C30: after update_passage_from_markup succeeds all stored fields of the
\* passage that parse derives from markup (tarea_number, title,
\* raw_markup_text, plain_text_es, lemmas, pos_distribution, paragraphs,
\* annotations) equal the values obtained by parsing the new markup, and the
\* stored question document of the passage holds exactly the new parse's
\* questions (none when the new markup has no questions)
C30_UpdateStoresParse ==
    pc = "updated" =>
        /\ StoredFields(passage, parse(raw, word_mapping.map, word_fallback.map, tags))
        /\ StoredQuestions(question_doc, parse(raw, word_mapping.map, word_fallback.map, tags).questions)

\* the maps _init_word_mapping builds from the rows, completely filled
CompleteMaps == Built(BuildMaps(RowsOf(db_session, words), 1, <<>>, <<>>))

\* C23: no annotation lookup ever reads a partially-built lexicon map: when
\* two threads call parse on the same parser while the maps are not yet
\* built, each token lookup of either thread sees the completely filled maps,
\* never an empty or half-filled map that is still being populated
C23_NoPartialRead ==
    \A t \in Threads :
        seen[t].read =>
            /\ seen[t].mapping = CompleteMaps.mapping
            /\ seen[t].fallback = CompleteMaps.fallback

====
